---- MODULE Spec2Model ----
(***************************************************************************)
(* Bretton Woods multiplayer game: the room/session state machines of      *)
(* server-multiroom.js (globalState: users, rooms, roomList) and of        *)
(* server.js (gameState: one room, Phase 1 voting and Phase 2 economy).    *)
(* Every socket handler is one atomic action (Node's event loop runs a     *)
(* handler to completion before the next message is dispatched).  A        *)
(* handler is an operator from the server's state and the message to the   *)
(* server's state after it, so that a state reached by a fixed run of      *)
(* messages is the composition of the handlers of that run.                *)
(***************************************************************************)
EXTENDS Integers, Sequences, FiniteSets, TLC

(***************************************************************************)
(* Bounds of the model                                                     *)
(***************************************************************************)
\* messages that change the server's state, per behaviour (messages that
\* are rejected or ignored are not counted)
MaxMessages == 6
\* the same, for the behaviours that start in a running game
MaxGameMessages == 3
\* the same, for the behaviours of server.js
MaxSingleMessages == 6
\* player ids issued by register (ids are fresh, never reused)
MaxUsers == 2
\* room ids issued by createRoom (fresh, never reused)
MaxRooms == 2
\* socket connections accepted (socket ids are fresh, never reused)
MaxSockets == 3

(***************************************************************************)
(* Inputs                                                                  *)
(***************************************************************************)
\* the seven score keys of createGameState
ScoreCountries == {"USA", "UK", "USSR", "France", "China", "India", "Argentina"}
\* countries the clients of the model ask for
Countries == {"USA", "UK"}
\* "" is a missing field (falsy in JavaScript)
Usernames == {"jjucovy", "alice"}
Passwords == {"secret"}
\* a password that is not the password of any user
WrongPassword == "guess"
\* a username and a password below the lengths server.js asks for
ShortUsername == "al"
ShortPassword == "pw"
Missing == ""
RoomNames == {"Bretton"}
Choices == {"for", "against", "abstain"}
ConfirmCodes == {"CLEAR_ALL_DATA", "clear"}
\* the policies a player submits: centralBankRate, exchangeRate, tariffRate
PolicyInputs == {<<"3.0", "1.0", "10">>, <<"0.5", "1.0", "15">>}
\* the values the calls of Math.random() return during one advanceYear, in
\* the order of the calls (fixed-point: 0.5 makes a random term zero)
NoShock == <<500, 500, 500, 500, 500, 500>>
RandomDraws == {NoShock, <<0, 0, 0, 0, 0, 0>>, <<0, 500, 0, 500, 0, 500>>}
\* a player id no register call has issued
UnknownId == 0

VARIABLES
  process,       \* the server that runs: its file, or "exited"
  globalState,   \* server-multiroom.js: users, rooms, roomList
  gameState,     \* server.js: the one game
  nextPlayerId,  \* the next id `player_${Date.now()}_...` stands for
  nextRoomId,    \* the next id `room_${Date.now()}_...` stands for
  sockets,       \* ids of the connected sockets
  nextSocketId,  \* the next socket.id
  budget,        \* state-changing messages the behaviour may still hold
  request,       \* the last message: <<event, its arguments ...>>
  changed,       \* the last message changed the server's state
  emitted        \* what the last handler sent: result, broadcasts, saves

vars == <<process, globalState, gameState, nextPlayerId, nextRoomId, sockets,
          nextSocketId, budget, request, changed, emitted>>

(***************************************************************************)
(* Helpers on JavaScript objects and arrays                                *)
(***************************************************************************)
Range(f) == {f[x] : x \in DOMAIN f}

Without(f, k) == [x \in DOMAIN f \ {k} |-> f[x]]

Put(f, k, v) == (k :> v) @@ f

RECURSIVE SortedSeq(_)
SortedSeq(S) ==
  IF S = {} THEN <<>>
  ELSE LET m == CHOOSE x \in S : \A y \in S : x <= y
       IN <<m>> \o SortedSeq(S \ {m})

\* Object.keys(room.players): the roster in insertion order
PlayerIds(players) == {players[i].id : i \in DOMAIN players}

HasPlayer(players, pid) == \E i \in DOMAIN players : players[i].id = pid

PlayerOf(players, pid) ==
  players[CHOOSE i \in DOMAIN players : players[i].id = pid]

\* room.players[playerId] = entry: a new key goes last, an old key keeps its place
SetPlayer(players, entry) ==
  IF HasPlayer(players, entry.id)
  THEN [i \in DOMAIN players |->
          IF players[i].id = entry.id THEN entry ELSE players[i]]
  ELSE Append(players, entry)

\* delete room.players[playerId]
DeletePlayer(players, pid) == SelectSeq(players, LAMBDA p : p.id # pid)

\* readyPlayers.filter(id => id !== playerId)
FilterOut(ids, pid) == SelectSeq(ids, LAMBDA x : x # pid)

Includes(ids, pid) == \E i \in DOMAIN ids : ids[i] = pid

\* const v = value; Body(v): the value is computed once
With(value, Body(_)) == CHOOSE r \in {Body(v) : v \in {value}} : TRUE

(***************************************************************************)
(* Messages                                                                *)
(***************************************************************************)
Msg(event, success, message) ==
  [event |-> event, success |-> success, message |-> message]

\* toActor: the socket.emit calls of the handler, in order;
\* stateUpdate: the rooms broadcastToRoom reached; roomListUpdate: the
\* io.emit('roomListUpdate') calls; saveState: the saveState calls;
\* roomDeleted: the rooms that were sent 'roomDeleted'
Emitted(op, toActor, stateUpdate, roomListUpdate, saves, roomDeleted) ==
  [op |-> op, toActor |-> toActor, stateUpdate |-> stateUpdate,
   roomListUpdate |-> roomListUpdate, saveState |-> saves,
   roomDeleted |-> roomDeleted]

Silent(op) == Emitted(op, <<>>, {}, 0, 0, {})

Reject(op, event, message) ==
  Emitted(op, <<Msg(event, FALSE, message)>>, {}, 0, 0, {})

(***************************************************************************)
(* server-multiroom.js                                                     *)
(***************************************************************************)
InitialScores == [c \in ScoreCountries |-> 0]

InitialPhase2 == [active |-> FALSE, currentYear |-> 1946]

createGameState(roomId, roomName, hostId) ==
  [roomId |-> roomId, roomName |-> roomName, hostId |-> hostId,
   gameStarted |-> FALSE, currentRound |-> 0,
   players |-> <<>>, votes |-> <<>>, readyPlayers |-> <<>>,
   gamePhase |-> "lobby", scores |-> InitialScores,
   roundHistory |-> <<>>, phase2 |-> InitialPhase2, maxPlayers |-> 7,
   \* voteTally, roundOutcome, roundScores: properties the vote handler adds
   voteTally |-> <<>>, roundOutcome |-> "undefined", roundScores |-> <<>>]

\* crypto's sha256 digest: injective on the passwords of the model
hashPassword(password) == <<"sha256", password>>

verifyPassword(password, hashedPassword) ==
  hashPassword(password) = hashedPassword

toLowerCase(username) == IF username = "Jjucovy" THEN "jjucovy" ELSE username

RoomListEntry(room) ==
  [id |-> room.roomId, name |-> room.roomName, host |-> room.hostId,
   playerCount |-> Len(room.players), maxPlayers |-> room.maxPlayers,
   status |-> IF room.gameStarted THEN "playing" ELSE "waiting",
   phase |-> room.gamePhase]

\* the room list recomputed from the rooms, in key order
updateRoomList(rooms) ==
  LET ids == SortedSeq(DOMAIN rooms)
  IN [i \in DOMAIN ids |-> RoomListEntry(rooms[ids[i]])]

\* broadcastRoomList: updateRoomList, then io.emit('roomListUpdate')
broadcastRoomList(gs) == [gs EXCEPT !.roomList = updateRoomList(gs.rooms)]

\* Object.values(globalState.users).find(u => u.playerId === playerId);
\* register issues each id once, so at most one user matches
UsersWithId(users, pid) == {u \in DOMAIN users : users[u].playerId = pid}

\* a faulty role check: any registered user passes
isRegistered(users, pid) == UsersWithId(users, pid) # {}

isSuperAdmin(users, pid) ==
  \E u \in UsersWithId(users, pid) : users[u].role = "superadmin"

RoleOf(users, pid) ==
  IF UsersWithId(users, pid) = {} THEN "not found"
  ELSE users[CHOOSE u \in UsersWithId(users, pid) : TRUE].role

(***************************************************************************)
(* The multi-room server's state as one value w: globalState, the id       *)
(* sources, the connected sockets and what the last handler emitted        *)
(***************************************************************************)
Answer(w, gs, out) == [w EXCEPT !.globalState = gs, !.emitted = out]

Refuse(w, out) == [w EXCEPT !.emitted = out]

\* io.on('connection'): the new socket is sent the stored room list
connection(w) ==
  [w EXCEPT !.sockets = @ \cup {w.nextSocketId},
            !.nextSocketId = @ + 1,
            !.emitted = Emitted("connection",
                                <<Msg("roomListUpdate", TRUE, "")>>,
                                {}, 0, 0, {})]

register(w, s, username, password) ==
  LET users == w.globalState.users
      isAdmin == toLowerCase(username) \in {"jjucovy@gmail.com", "jjucovy"}
      role == IF isAdmin THEN "superadmin" ELSE "player"
  IN
  IF username = Missing \/ password = Missing
  THEN Refuse(w, Reject("register", "registerResult",
                        "Username and password required"))
  ELSE IF username \in DOMAIN users
  THEN Refuse(w, Reject("register", "registerResult",
                        "Username already exists"))
  ELSE [w EXCEPT
          !.globalState.users =
             Put(users, username,
                 [password |-> hashPassword(password),
                  playerId |-> w.nextPlayerId, role |-> role]),
          !.nextPlayerId = @ + 1,
          !.emitted = Emitted("register", <<Msg("registerResult", TRUE, role)>>,
                              {}, 0, 1, {})]

login(w, s, username, password) ==
  LET users == w.globalState.users IN
  IF username = Missing \/ password = Missing
  THEN Refuse(w, Reject("login", "loginResult",
                        "Username and password required"))
  ELSE IF username \notin DOMAIN users
  THEN Refuse(w, Reject("login", "loginResult", "Invalid username or password"))
  ELSE IF ~verifyPassword(password, users[username].password)
  THEN Refuse(w, Reject("login", "loginResult", "Invalid username or password"))
  ELSE Refuse(w, Emitted("login",
                         <<Msg("loginResult", TRUE, users[username].role)>>,
                         {}, 0, 0, {}))

createRoom(w, s, playerId, roomName) ==
  LET gs == w.globalState
      roomId == w.nextRoomId
  IN [w EXCEPT
        !.globalState =
           broadcastRoomList(
             [gs EXCEPT !.rooms =
                Put(gs.rooms, roomId,
                    createGameState(roomId, roomName, playerId))]),
        !.nextRoomId = @ + 1,
        !.emitted = Emitted("createRoom", <<Msg("roomCreated", TRUE, "")>>,
                            {}, 1, 1, {})]

joinRoom(w, s, roomId) ==
  IF roomId \notin DOMAIN w.globalState.rooms
  THEN Refuse(w, Reject("joinRoom", "joinRoomResult", "Room not found"))
  ELSE Refuse(w, Emitted("joinRoom", <<Msg("joinRoomResult", TRUE, "")>>,
                         {roomId}, 0, 0, {}))

leaveRoom(w, s, roomId) ==
  Refuse(w, Emitted("leaveRoom", <<Msg("leftRoom", TRUE, "")>>, {}, 0, 0, {}))

\* a faulty deleteRoom: the host check is missing
deleteRoomByAnyone(w, s, roomId, playerId) ==
  LET gs == w.globalState IN
  IF roomId \notin DOMAIN gs.rooms
  THEN Refuse(w, Reject("deleteRoom", "deleteRoomResult", "Room not found"))
  ELSE Answer(w,
              [gs EXCEPT !.rooms = Without(gs.rooms, roomId),
                         !.roomList = updateRoomList(Without(gs.rooms, roomId))],
              Emitted("deleteRoom", <<Msg("deleteRoomResult", TRUE, "")>>,
                      {}, 1, 1, {roomId}))

deleteRoom(w, s, roomId, playerId) ==
  LET gs == w.globalState
      rooms == gs.rooms
  IN
  IF roomId \notin DOMAIN rooms
  THEN Refuse(w, Reject("deleteRoom", "deleteRoomResult", "Room not found"))
  ELSE IF rooms[roomId].hostId # playerId
  THEN Refuse(w, Reject("deleteRoom", "deleteRoomResult",
                        "Only host can delete room"))
  ELSE Answer(w,
              broadcastRoomList([gs EXCEPT !.rooms = Without(rooms, roomId)]),
              Emitted("deleteRoom", <<Msg("deleteRoomResult", TRUE, "")>>,
                      {}, 1, 1, {roomId}))

\* a faulty check: no country is ever taken
takenNever(players, country) == FALSE

\* Object.values(room.players).some(p => p.country === country)
taken(players, country) ==
  \E i \in DOMAIN players : players[i].country = country

\* a faulty joinGame: the role of the sender is not looked up
joinGameOfAnyRole(w, s, roomId, playerId, country) ==
  LET gs == w.globalState
      rooms == gs.rooms
  IN
  IF roomId \notin DOMAIN rooms
  THEN Refuse(w, Reject("joinGame", "joinResult", "Room not found"))
  ELSE IF taken(rooms[roomId].players, country)
  THEN Refuse(w, Reject("joinGame", "joinResult", "Country already taken"))
  ELSE Answer(w,
              broadcastRoomList(
                [gs EXCEPT !.rooms[roomId].players =
                   SetPlayer(@, [id |-> playerId, country |-> country,
                                 socketId |-> s, disconnected |-> FALSE])]),
              Emitted("joinGame", <<Msg("joinResult", TRUE, "")>>,
                      {roomId}, 1, 1, {}))

joinGame(w, s, roomId, playerId, country) ==
  LET gs == w.globalState
      rooms == gs.rooms
  IN
  IF roomId \notin DOMAIN rooms
  THEN Refuse(w, Reject("joinGame", "joinResult", "Room not found"))
  ELSE IF isSuperAdmin(gs.users, playerId)
  THEN Refuse(w, Reject("joinGame", "joinResult",
                        "Administrator cannot join as a player"))
  ELSE IF taken(rooms[roomId].players, country)
  THEN Refuse(w, Reject("joinGame", "joinResult", "Country already taken"))
  ELSE Answer(w,
              broadcastRoomList(
                [gs EXCEPT !.rooms[roomId].players =
                   SetPlayer(@, [id |-> playerId, country |-> country,
                                 socketId |-> s, disconnected |-> FALSE])]),
              Emitted("joinGame", <<Msg("joinResult", TRUE, "")>>,
                      {roomId}, 1, 1, {}))

\* a faulty leaveGame: the player is taken off the roster of every room
leaveGameEverywhere(w, s, roomId, playerId) ==
  LET gs == w.globalState IN
  IF roomId \notin DOMAIN gs.rooms
  THEN Refuse(w, Silent("leaveGame"))
  ELSE Answer(w,
              broadcastRoomList(
                [gs EXCEPT !.rooms =
                   [r \in DOMAIN gs.rooms |->
                      [gs.rooms[r] EXCEPT
                         !.players = DeletePlayer(@, playerId),
                         !.readyPlayers = FilterOut(@, playerId)]]]),
              Emitted("leaveGame", <<>>, {roomId}, 1, 1, {}))

leaveGame(w, s, roomId, playerId) ==
  LET gs == w.globalState IN
  IF roomId \notin DOMAIN gs.rooms
  THEN Refuse(w, Silent("leaveGame"))
  ELSE Answer(w,
              broadcastRoomList(
                [gs EXCEPT
                   !.rooms[roomId].players = DeletePlayer(@, playerId),
                   !.rooms[roomId].readyPlayers = FilterOut(@, playerId)]),
              Emitted("leaveGame", <<>>, {roomId}, 1, 1, {}))

\* a faulty setReady: the ready set is changed and broadcast, not saved
setReadyUnsaved(w, s, roomId, playerId, ready) ==
  LET gs == w.globalState IN
  IF roomId \notin DOMAIN gs.rooms
  THEN Refuse(w, Silent("setReady"))
  ELSE Answer(w,
              [gs EXCEPT !.rooms[roomId].readyPlayers =
                 IF ready
                 THEN IF Includes(@, playerId) THEN @ ELSE Append(@, playerId)
                 ELSE FilterOut(@, playerId)],
              Emitted("setReady", <<>>, {roomId}, 0, 0, {}))

setReady(w, s, roomId, playerId, ready) ==
  LET gs == w.globalState IN
  IF roomId \notin DOMAIN gs.rooms
  THEN Refuse(w, Silent("setReady"))
  ELSE Answer(w,
              [gs EXCEPT !.rooms[roomId].readyPlayers =
                 IF ready
                 THEN IF Includes(@, playerId) THEN @ ELSE Append(@, playerId)
                 ELSE FilterOut(@, playerId)],
              Emitted("setReady", <<>>, {roomId}, 0, 1, {}))

\* playerCount < 2: 'Need at least 2 players to start'
MinPlayers == 2

\* a faulty count: one player too many
playerCountOffByOne(room) == Len(room.players) + 1

\* Object.keys(room.players).length
playerCount(room) == Len(room.players)

startGame(w, s, roomId, playerId) ==
  LET gs == w.globalState
      rooms == gs.rooms
  IN
  IF roomId \notin DOMAIN rooms
  THEN Refuse(w, Reject("startGame", "startGameResult", "Room not found"))
  ELSE IF ~isSuperAdmin(gs.users, playerId)
  THEN Refuse(w, Reject("startGame", "startGameResult",
                        "Only the administrator can start games"))
  ELSE IF playerCount(rooms[roomId]) < MinPlayers
  THEN Refuse(w, Reject("startGame", "startGameResult",
                        "Need at least 2 players to start"))
  ELSE Answer(w,
              broadcastRoomList(
                [gs EXCEPT !.rooms[roomId].gameStarted = TRUE,
                           !.rooms[roomId].gamePhase = "voting",
                           !.rooms[roomId].currentRound = 1]),
              Emitted("startGame", <<Msg("startGameResult", TRUE, "")>>,
                      {roomId}, 1, 1, {}))

(***************************************************************************)
(* vote: the tally and the scores of a completed round                     *)
(***************************************************************************)
\* playerIds.every(id => room.votes[id])
allVoted(players, votes) ==
  \A i \in DOMAIN players :
     players[i].id \in DOMAIN votes /\ votes[players[i].id] # Missing

\* { for: 0, against: 0, abstain: 0 } counted over Object.values(room.votes)
TallyVotes(votes) ==
  [k \in {"for", "against", "abstain"} \cup Range(votes) |->
     Cardinality({id \in DOMAIN votes : votes[id] = k})]

\* a faulty tally: a tie passes
OutcomeTiePasses(voteTally) ==
  IF voteTally["for"] >= voteTally["against"] THEN "passed" ELSE "failed"

Outcome(voteTally) ==
  IF voteTally["for"] > voteTally["against"] THEN "passed" ELSE "failed"

ParticipationPoints == 10
AlignmentPoints == 30
AbstainPoints == 5

Points(vote, outcome) ==
  ParticipationPoints
  + (IF (vote = "for" /\ outcome = "passed")
        \/ (vote = "against" /\ outcome = "failed")
     THEN AlignmentPoints ELSE 0)
  + (IF vote = "abstain" THEN AbstainPoints ELSE 0)

\* Object.entries(room.players).forEach: roundScores[country] = points and
\* room.scores[country] += points, player after player
RECURSIVE ScoreRound(_, _, _, _, _)
ScoreRound(players, votes, outcome, scores, roundScores) ==
  IF players = <<>> THEN [scores |-> scores, roundScores |-> roundScores]
  ELSE LET p == Head(players)
           points == Points(votes[p.id], outcome)
           old == IF p.country \in DOMAIN scores THEN scores[p.country] ELSE 0
       IN ScoreRound(Tail(players), votes, outcome,
                     Put(scores, p.country, old + points),
                     Put(roundScores, p.country, points))

ResolveRound(room) ==
  LET voteTally == TallyVotes(room.votes)
      outcome == Outcome(voteTally)
      scored == ScoreRound(room.players, room.votes, outcome, room.scores, <<>>)
  IN [room EXCEPT !.scores = scored.scores,
                  !.voteTally = voteTally,
                  !.roundOutcome = outcome,
                  !.roundScores = scored.roundScores,
                  !.gamePhase = "results"]

vote(w, s, roomId, playerId, choice) ==
  LET gs == w.globalState
      rooms == gs.rooms
  IN
  IF roomId \notin DOMAIN rooms \/ ~rooms[roomId].gameStarted
  THEN Refuse(w, Silent("vote"))
  ELSE IF ~HasPlayer(rooms[roomId].players, playerId)
  THEN Refuse(w, Silent("vote"))
  ELSE LET stored == [rooms[roomId] EXCEPT !.votes = Put(@, playerId, choice)]
       IN Answer(w,
                 [gs EXCEPT !.rooms[roomId] =
                    IF allVoted(stored.players, stored.votes)
                    THEN ResolveRound(stored) ELSE stored],
                 Emitted("vote", <<>>, {roomId}, 0, 1, {}))

\* room.currentRound > 10: the game is complete
LastRound == 10

advanceRound(w, s, roomId, playerId) ==
  LET gs == w.globalState
      rooms == gs.rooms
  IN
  IF roomId \notin DOMAIN rooms
  THEN Refuse(w, Silent("advanceRound"))
  ELSE IF ~isSuperAdmin(gs.users, playerId)
  THEN Refuse(w, Silent("advanceRound"))
  ELSE LET round == rooms[roomId].currentRound + 1 IN
       Answer(w,
              [gs EXCEPT !.rooms[roomId] =
                 IF round > LastRound
                 THEN [@ EXCEPT !.currentRound = round,
                                !.gamePhase = "complete"]
                 ELSE [@ EXCEPT !.currentRound = round,
                                !.gamePhase = "voting", !.votes = <<>>]],
              Emitted("advanceRound", <<>>, {roomId}, 0, 1, {}))

resetRoom(w, s, roomId, playerId) ==
  LET gs == w.globalState IN
  IF roomId \notin DOMAIN gs.rooms
  THEN Refuse(w, Silent("resetRoom"))
  ELSE IF ~isSuperAdmin(gs.users, playerId)
  THEN Refuse(w, Reject("resetRoom", "resetRoomResult",
                        "Only the administrator can reset games"))
  ELSE Answer(w,
              broadcastRoomList(
                [gs EXCEPT !.rooms[roomId] =
                   [@ EXCEPT !.gameStarted = FALSE, !.currentRound = 0,
                             !.gamePhase = "lobby", !.votes = <<>>,
                             !.scores = InitialScores, !.roundHistory = <<>>,
                             !.readyPlayers = <<>>, !.phase2 = InitialPhase2]]),
              Emitted("resetRoom", <<Msg("resetRoomResult", TRUE, "")>>,
                      {roomId}, 1, 1, {}))

\* a faulty clearAllData: the confirmation code is not compared
clearAllDataUnconfirmed(w, s, playerId, confirmCode) ==
  LET users == w.globalState.users IN
  IF UsersWithId(users, playerId) = {}
  THEN Refuse(w, Reject("clearAllData", "clearDataResult", "User not found"))
  ELSE IF RoleOf(users, playerId) # "superadmin"
  THEN Refuse(w, Reject("clearAllData", "clearDataResult", "Access denied"))
  ELSE LET admins == {u \in DOMAIN users : users[u].role = "superadmin"} IN
       Answer(w,
              broadcastRoomList([users |-> [u \in admins |-> users[u]],
                                 rooms |-> <<>>, roomList |-> <<>>]),
              Emitted("clearAllData", <<Msg("clearDataResult", TRUE, "")>>,
                      {}, 1, 1, {}))

clearAllData(w, s, playerId, confirmCode) ==
  LET users == w.globalState.users IN
  IF UsersWithId(users, playerId) = {}
  THEN Refuse(w, Reject("clearAllData", "clearDataResult", "User not found"))
  ELSE IF RoleOf(users, playerId) # "superadmin"
  THEN Refuse(w, Reject("clearAllData", "clearDataResult", "Access denied"))
  ELSE IF confirmCode # "CLEAR_ALL_DATA"
  THEN Refuse(w, Reject("clearAllData", "clearDataResult",
                        "Invalid confirmation code"))
  ELSE LET admins == {u \in DOMAIN users : users[u].role = "superadmin"} IN
       Answer(w,
              broadcastRoomList([users |-> [u \in admins |-> users[u]],
                                 rooms |-> <<>>, roomList |-> <<>>]),
              Emitted("clearAllData", <<Msg("clearDataResult", TRUE, "")>>,
                      {}, 1, 1, {}))

\* a faulty adminDeleteRoom: the role of the actor is not checked
adminDeleteRoomByAnyone(w, s, roomId, playerId) ==
  LET gs == w.globalState IN
  IF roomId \notin DOMAIN gs.rooms
  THEN Refuse(w, Reject("adminDeleteRoom", "deleteRoomResult",
                        "Room not found"))
  ELSE Answer(w,
              broadcastRoomList([gs EXCEPT !.rooms = Without(gs.rooms, roomId)]),
              Emitted("adminDeleteRoom", <<Msg("deleteRoomResult", TRUE, "")>>,
                      {}, 1, 1, {roomId}))

adminDeleteRoom(w, s, roomId, playerId) ==
  LET gs == w.globalState IN
  IF ~isSuperAdmin(gs.users, playerId)
  THEN Refuse(w, Reject("adminDeleteRoom", "deleteRoomResult",
                        "Administrator access required"))
  ELSE IF roomId \notin DOMAIN gs.rooms
  THEN Refuse(w, Reject("adminDeleteRoom", "deleteRoomResult",
                        "Room not found"))
  ELSE Answer(w,
              broadcastRoomList([gs EXCEPT !.rooms = Without(gs.rooms, roomId)]),
              Emitted("adminDeleteRoom", <<Msg("deleteRoomResult", TRUE, "")>>,
                      {}, 1, 1, {roomId}))

\* Object.keys(room.players).find(id => room.players[id].socketId === socket.id)
PlayersOnSocket(players, s) ==
  {i \in DOMAIN players : players[i].socketId = s}

\* a faulty disconnect: the player on the socket is taken off the roster
DisconnectRoomRemoves(room, s) ==
  LET on == PlayersOnSocket(room.players, s) IN
  IF on = {} THEN room
  ELSE LET first == CHOOSE i \in on : \A j \in on : i <= j
           pid == room.players[first].id
       IN [room EXCEPT !.players = DeletePlayer(@, pid),
                       !.readyPlayers = FilterOut(@, pid)]

DisconnectRoom(room, s) ==
  LET on == PlayersOnSocket(room.players, s) IN
  IF on = {} THEN room
  ELSE LET first == CHOOSE i \in on : \A j \in on : i <= j
           pid == room.players[first].id
       IN [room EXCEPT !.players[first].disconnected = TRUE,
                       !.readyPlayers = FilterOut(@, pid)]

disconnect(w, s) ==
  LET rooms == w.globalState.rooms
      hit == {r \in DOMAIN rooms : PlayersOnSocket(rooms[r].players, s) # {}}
  IN [w EXCEPT
        !.globalState.rooms =
           [r \in DOMAIN rooms |-> DisconnectRoom(rooms[r], s)],
        !.sockets = @ \ {s},
        !.emitted = Emitted("disconnect", <<>>, hit, 0, Cardinality(hit), {})]

(***************************************************************************)
(* server.js: the single game                                              *)
(***************************************************************************)
\* phase2.maxYears
MaxYears == 7
FirstYear == 1946

\* the gameState literal (gameId, militaryDeployments and the timestamps are
\* never read by a handler and are left out)
InitialGameState ==
  [gameStarted |-> FALSE, currentRound |-> 0, players |-> <<>>,
   votes |-> <<>>, readyPlayers |-> <<>>, gamePhase |-> "lobby",
   scores |-> InitialScores, roundHistory |-> <<>>, users |-> <<>>,
   phase2 |-> [active |-> FALSE, currentYear |-> FirstYear,
               maxYears |-> MaxYears, yearlyData |-> <<>>,
               policies |-> <<>>, achievements |-> <<>>,
               yearScores |-> <<>>]]

\* broadcastState: io.emit('stateUpdate', gameState), then saveGameState()
broadcastState(op, toActor) == Emitted(op, toActor, {"everyone"}, 0, 1, {})

\* io.on('connection'): the new socket is sent the state
sr_connection(w) ==
  [w EXCEPT !.sockets = @ \cup {w.nextSocketId},
            !.nextSocketId = @ + 1,
            !.emitted = Emitted("connection", <<Msg("stateUpdate", TRUE, "")>>,
                                {}, 0, 0, {})]

MinUsername == 3
MinPassword == 4

sr_register(w, s, username, password) ==
  LET users == w.gameState.users IN
  IF username = Missing \/ password = Missing
  THEN Refuse(w, Reject("register", "registerResult",
                        "Username and password required"))
  ELSE IF Len(username) < MinUsername
  THEN Refuse(w, Reject("register", "registerResult",
                        "Username must be at least 3 characters"))
  ELSE IF Len(password) < MinPassword
  THEN Refuse(w, Reject("register", "registerResult",
                        "Password must be at least 4 characters"))
  ELSE IF username \in DOMAIN users
  THEN Refuse(w, Reject("register", "registerResult", "Username already taken"))
  ELSE [w EXCEPT
          !.gameState.users =
             Put(users, username, [password |-> hashPassword(password),
                                   playerId |-> w.nextPlayerId]),
          !.nextPlayerId = @ + 1,
          !.emitted = broadcastState("register",
                                     <<Msg("registerResult", TRUE, "")>>)]

\* existingPlayer.socketId = socket.id
Resume(players, pid, s) ==
  SetPlayer(players, [PlayerOf(players, pid) EXCEPT !.socketId = s])

sr_login(w, s, username, password) ==
  LET gs == w.gameState
      users == gs.users
  IN
  IF username = Missing \/ password = Missing
  THEN Refuse(w, Reject("login", "loginResult",
                        "Username and password required"))
  ELSE IF username \notin DOMAIN users
  THEN Refuse(w, Reject("login", "loginResult", "Invalid username or password"))
  ELSE IF ~verifyPassword(password, users[username].password)
  THEN Refuse(w, Reject("login", "loginResult", "Invalid username or password"))
  ELSE IF HasPlayer(gs.players, users[username].playerId)
  THEN [w EXCEPT
          !.gameState.players = Resume(@, users[username].playerId, s),
          !.emitted = broadcastState("login",
                                     <<Msg("loginResult", TRUE, "isResuming")>>)]
  ELSE Refuse(w, Emitted("login", <<Msg("loginResult", TRUE, "")>>,
                         {}, 0, 0, {}))

checkResume(w, s, playerId) ==
  IF HasPlayer(w.gameState.players, playerId)
  THEN [w EXCEPT
          !.gameState.players = Resume(@, playerId, s),
          !.emitted = broadcastState("checkResume",
                                     <<Msg("resumeCheck", TRUE, "shouldResume")>>)]
  ELSE Refuse(w, Emitted("checkResume", <<Msg("resumeCheck", TRUE, "")>>,
                         {}, 0, 0, {}))

sr_joinGame(w, s, playerId, country) ==
  IF taken(w.gameState.players, country)
  THEN Refuse(w, Reject("joinGame", "joinResult", "Country already taken"))
  ELSE [w EXCEPT
          !.gameState.players =
             SetPlayer(@, [id |-> playerId, country |-> country,
                           socketId |-> s]),
          !.emitted = broadcastState("joinGame", <<Msg("joinResult", TRUE, "")>>)]

sr_leaveGame(w, s, playerId) ==
  [w EXCEPT !.gameState.players = DeletePlayer(@, playerId),
            !.gameState.readyPlayers = FilterOut(@, playerId),
            !.emitted = broadcastState("leaveGame", <<>>)]

sr_setReady(w, s, playerId, ready) ==
  [w EXCEPT !.gameState.readyPlayers =
               IF ready
               THEN IF Includes(@, playerId) THEN @ ELSE Append(@, playerId)
               ELSE FilterOut(@, playerId),
            !.emitted = broadcastState("setReady", <<>>)]

\* playerCount > 0 && readyCount === playerCount
readyQuorum(gs) ==
  Len(gs.players) > 0 /\ Len(gs.readyPlayers) = Len(gs.players)

sr_startGame(w, s) ==
  IF readyQuorum(w.gameState)
  THEN [w EXCEPT !.gameState.gameStarted = TRUE,
                 !.gameState.currentRound = 1,
                 !.gameState.gamePhase = "voting",
                 !.gameState.readyPlayers = <<>>,
                 !.emitted = broadcastState("startGame", <<>>)]
  ELSE Refuse(w, Silent("startGame"))

\* `${issueId}-${player.country}`
voteKey(issueId, country) == <<issueId, "-", country>>

submitVote(w, s, playerId, issueId, optionId) ==
  LET gs == w.gameState IN
  IF HasPlayer(gs.players, playerId)
  THEN [w EXCEPT
          !.gameState.votes =
             Put(@, voteKey(issueId, PlayerOf(gs.players, playerId).country),
                 optionId),
          !.emitted = broadcastState("submitVote", <<>>)]
  ELSE Refuse(w, Silent("submitVote"))

(***************************************************************************)
(* game-data.json (not part of the sources): the scripted issues and the   *)
(* starting economic data of the seven countries                           *)
(***************************************************************************)
\* issues.length
NumIssues == 2

\* one issue: option A favors the USA and opposes the UK, option B favors
\* the UK
Issue(i) ==
  [id |-> i, title |-> <<"issue", i>>,
   options |-> <<[id |-> "A", text |-> "option A",
                  favors |-> {"USA"}, opposes |-> {"UK"}],
                 [id |-> "B", text |-> "option B",
                  favors |-> {"UK"}, opposes |-> {}]>>]

issues == [i \in 1 .. NumIssues |-> Issue(i)]

OptionIds == {"A", "B"}

\* numbers are fixed-point: the integer n stands for n / Scale
Scale == 1000

\* a number that is NaN or undefined in JavaScript
NaN == -(Scale * Scale * Scale)

economicData ==
  [c \in ScoreCountries |->
     IF c = "USA"
     THEN [gdp |-> 228000 * Scale, goldReserves |-> 20000 * Scale,
           tradeBalance |-> 8000 * Scale, industrialOutput |-> 100 * Scale]
     ELSE [gdp |-> 30000 * Scale, goldReserves |-> 2000 * Scale,
           tradeBalance |-> (-1000) * Scale, industrialOutput |-> 60 * Scale]]

(***************************************************************************)
(* server.js: Phase 1 rounds                                               *)
(***************************************************************************)
\* voteCounts after one more vote for optionId: a known key is counted up,
\* a new key is added last
CountVote(voteCounts, optionId) ==
  IF \E k \in DOMAIN voteCounts : voteCounts[k].id = optionId
  THEN [k \in DOMAIN voteCounts |->
          IF voteCounts[k].id = optionId
          THEN [voteCounts[k] EXCEPT !.count = @ + 1] ELSE voteCounts[k]]
  ELSE Append(voteCounts, [id |-> optionId, count |-> 1])

\* Object.keys(gameState.players).forEach: the votes of the current players
\* on the issue
RECURSIVE CountVotes(_, _, _, _)
CountVotes(players, votes, issueId, voteCounts) ==
  IF players = <<>> THEN voteCounts
  ELSE LET key == voteKey(issueId, Head(players).country)
           voted == key \in DOMAIN votes /\ votes[key] # Missing
       IN CountVotes(Tail(players), votes, issueId,
                     IF voted THEN CountVote(voteCounts, votes[key])
                     ELSE voteCounts)

\* the first option with the highest count (count > maxVotes, from -1)
RECURSIVE WinningOptionId(_, _, _)
WinningOptionId(voteCounts, winner, maxVotes) ==
  IF voteCounts = <<>> THEN winner
  ELSE IF Head(voteCounts).count > maxVotes
  THEN WinningOptionId(Tail(voteCounts), Head(voteCounts).id,
                       Head(voteCounts).count)
  ELSE WinningOptionId(Tail(voteCounts), winner, maxVotes)

FavorPoints == 10
OpposePoints == 5

\* the scores after every current player's country got its points
RECURSIVE AwardPoints(_, _, _)
AwardPoints(players, option, scores) ==
  IF players = <<>> THEN scores
  ELSE LET c == Head(players).country
           favored == IF c \in option.favors
                      THEN [scores EXCEPT ![c] = @ + FavorPoints] ELSE scores
           opposed == IF c \in option.opposes
                      THEN [favored EXCEPT ![c] = @ - OpposePoints]
                      ELSE favored
       IN AwardPoints(Tail(players), option, opposed)

calculateScoresForCurrentRound(gs) ==
  IF gs.currentRound \notin DOMAIN issues THEN gs
  ELSE
    LET currentIssue == issues[gs.currentRound]
        options == currentIssue.options
        voteCounts ==
          CountVotes(gs.players, gs.votes, currentIssue.id,
                     [k \in DOMAIN options |-> [id |-> options[k].id,
                                                count |-> 0]])
        winningOptionId == WinningOptionId(voteCounts, Missing, -1)
        found == {k \in DOMAIN options : options[k].id = winningOptionId}
    IN IF winningOptionId = Missing \/ found = {} THEN gs
       ELSE LET winningOption ==
                  options[CHOOSE k \in found : \A j \in found : k <= j]
            IN [gs EXCEPT
                  !.scores = AwardPoints(gs.players, winningOption, @),
                  !.roundHistory =
                     Append(@, [round |-> gs.currentRound,
                                issue |-> currentIssue.title,
                                winningOption |-> winningOption.text,
                                votes |-> voteCounts])]

(***************************************************************************)
(* server.js: Phase 2, the economy of a year                               *)
(***************************************************************************)
\* x * num / den on fixed-point numbers (exact on the inputs of the model)
Mul(x, num, den) == (x * num) \div den

Abs(x) == IF x < 0 THEN -x ELSE x

\* Math.max, Math.min: NaN if an argument is NaN
Max(a, b) == IF a = NaN \/ b = NaN THEN NaN ELSE IF a >= b THEN a ELSE b

Min(a, b) == IF a = NaN \/ b = NaN THEN NaN ELSE IF a <= b THEN a ELSE b

\* a + b: NaN if an argument is NaN
Plus(a, b) == IF a = NaN \/ b = NaN THEN NaN ELSE a + b

\* Math.round(x / unit) * unit: halves round up
Round(x, unit) ==
  IF x = NaN THEN NaN ELSE ((x + unit \div 2) \div unit) * unit

\* Math.round(x * 10) / 10 and Math.round(x)
Tenth == Scale \div 10

\* comparisons: false if the left side is NaN
Ge(x, c) == x # NaN /\ x >= c
Gt(x, c) == x # NaN /\ x > c
Le(x, c) == x # NaN /\ x <= c
Lt(x, c) == x # NaN /\ x < c

\* the starting unemployment and inflation of initializePhase2
InitialUnemployment(country) ==
  CASE country = "USA" -> 3900
    [] country = "UK" -> 2500
    [] country = "USSR" -> 0
    [] country = "France" -> 4500
    [] country = "India" -> 8000
    [] country = "Argentina" -> 5500
    [] OTHER -> 5000

InitialInflation(country) ==
  CASE country = "USA" -> 8300
    [] country = "UK" -> 3100
    [] country = "USSR" -> 0
    [] country = "France" -> 50000
    [] country = "India" -> 12000
    [] country = "Argentina" -> 4000
    [] OTHER -> 20000

InitialYearData(country) ==
  [gdpGrowth |-> 0,
   goldReserves |-> economicData[country].goldReserves,
   unemployment |-> InitialUnemployment(country),
   tradeBalance |-> economicData[country].tradeBalance,
   inflation |-> InitialInflation(country),
   industrialOutput |-> economicData[country].industrialOutput]

\* a faulty initializePhase2: only the first player gets a record
initializePhase2FirstOnly(gs) ==
  [gs EXCEPT
     !.phase2.active = TRUE,
     !.phase2.currentYear = FirstYear,
     !.gamePhase = "phase2",
     !.readyPlayers = <<>>,
     !.phase2.yearlyData =
        Put(@, FirstYear,
            [c \in {gs.players[1].country} |-> InitialYearData(c)])]

\* gameState.phase2.yearlyData[1946] = {}, then one record per current player
initializePhase2(gs) ==
  LET held == {gs.players[i].country : i \in DOMAIN gs.players} IN
  [gs EXCEPT
     !.phase2.active = TRUE,
     !.phase2.currentYear = FirstYear,
     !.gamePhase = "phase2",
     !.readyPlayers = <<>>,
     !.phase2.yearlyData =
        Put(@, FirstYear, [c \in held |-> InitialYearData(c)])]

\* bonus[country] = Math.max(0, countryScore / 20)
calculateAgreementBonus(scores) ==
  [c \in ScoreCountries |-> Max(0, Mul(scores[c] * Scale, 1, 20))]

GdpPoints(gdpGrowth) ==
  IF Ge(gdpGrowth, 5000) /\ Le(gdpGrowth, 7000) THEN 15
  ELSE IF Ge(gdpGrowth, 3000) /\ Lt(gdpGrowth, 5000) THEN 12
  ELSE IF Gt(gdpGrowth, 7000) THEN 8
  ELSE IF Ge(gdpGrowth, 1000) /\ Lt(gdpGrowth, 3000) THEN 6
  ELSE IF Ge(gdpGrowth, 0) /\ Lt(gdpGrowth, 1000) THEN 2
  ELSE -5

UnemploymentPoints(unemployment) ==
  IF Ge(unemployment, 2000) /\ Le(unemployment, 4000) THEN 15
  ELSE IF Lt(unemployment, 2000) THEN 10
  ELSE IF Gt(unemployment, 4000) /\ Le(unemployment, 6000) THEN 12
  ELSE IF Gt(unemployment, 6000) /\ Le(unemployment, 8000) THEN 6
  ELSE IF Gt(unemployment, 8000) /\ Le(unemployment, 10000) THEN 2
  ELSE -3

InflationPoints(inflation) ==
  IF Ge(inflation, 1000) /\ Le(inflation, 3000) THEN 12
  ELSE IF Gt(inflation, 3000) /\ Le(inflation, 5000) THEN 10
  ELSE IF Gt(inflation, 0) /\ Lt(inflation, 1000) THEN 5
  ELSE IF Gt(inflation, 5000) /\ Le(inflation, 7000) THEN 4
  ELSE IF Gt(inflation, 7000) /\ Le(inflation, 10000) THEN 0
  ELSE IF Gt(inflation, 10000) THEN -8
  ELSE -5

TradePoints(tradeBalance) ==
  IF Gt(tradeBalance, 2000 * Scale) THEN 10
  ELSE IF Gt(tradeBalance, 1000 * Scale) THEN 8
  ELSE IF Gt(tradeBalance, 0) THEN 6
  ELSE IF Gt(tradeBalance, (-500) * Scale) THEN 4
  ELSE IF Gt(tradeBalance, (-1500) * Scale) THEN 2
  ELSE 0

GoldPoints(goldChange) ==
  IF Gt(goldChange, 1000 * Scale) THEN 5
  ELSE IF Gt(goldChange, 500 * Scale) THEN 3
  ELSE IF Gt(goldChange, 0) THEN 1
  ELSE IF Gt(goldChange, (-500) * Scale) THEN 0
  ELSE -2

OutputPoints(outputGrowth) ==
  IF Ge(outputGrowth, 10 * Scale) THEN 3
  ELSE IF Ge(outputGrowth, 5 * Scale) THEN 2
  ELSE IF Ge(outputGrowth, 2 * Scale) THEN 1
  ELSE IF Ge(outputGrowth, 0) THEN 0
  ELSE -1

calculatePerformanceScore(gdpGrowth, unemployment, inflation, tradeBalance, goldChange, outputGrowth) ==
  LET breakdown == [gdp |-> GdpPoints(gdpGrowth),
                    unemployment |-> UnemploymentPoints(unemployment),
                    inflation |-> InflationPoints(inflation),
                    trade |-> TradePoints(tradeBalance),
                    gold |-> GoldPoints(goldChange),
                    output |-> OutputPoints(outputGrowth)]
  IN [score |-> breakdown.gdp + breakdown.unemployment + breakdown.inflation
                + breakdown.trade + breakdown.gold + breakdown.output,
      breakdown |-> breakdown]

\* { ...undefined }: a year record without a field that is a number
NoYearData ==
  [gdpGrowth |-> NaN, goldReserves |-> NaN, unemployment |-> NaN,
   tradeBalance |-> NaN, inflation |-> NaN, industrialOutput |-> NaN]

\* obj[key] || {}
OrEmpty(obj, key) == IF key \in DOMAIN obj THEN obj[key] ELSE <<>>

\* obj.field, or {} where the object has no such field
Field(obj, field) == IF field \in DOMAIN obj THEN obj[field] ELSE <<>>

\* obj.field = value
WithField(obj, field, value) ==
  IF field \in DOMAIN obj THEN [obj EXCEPT ![field] = value]
  ELSE (field :> value) @@ obj

\* a faulty ScriptedShock: the civil-war penalties fall on every country
ScriptedShockEverywhere(country, currentYear) ==
  [gdp |-> -2000, inflation |-> 10000, trade |-> (-500) * Scale]

\* China Civil War penalties (1946-1949) and India's transition (1947, 1948)
ScriptedShock(country, currentYear) ==
  IF country = "China" /\ currentYear >= 1946 /\ currentYear <= 1949
  THEN [gdp |-> -2000, inflation |-> 10000, trade |-> (-500) * Scale]
  ELSE IF country = "India" /\ currentYear = 1947
  THEN [gdp |-> -1500, inflation |-> 8000, trade |-> (-300) * Scale]
  ELSE IF country = "India" /\ currentYear = 1948
  THEN [gdp |-> -500, inflation |-> 3000, trade |-> (-100) * Scale]
  ELSE [gdp |-> 0, inflation |-> 0, trade |-> 0]

\* the year of one country that submitted a policy and has a record of the
\* current year; random holds the values of the calls of Math.random() still
\* to come: the first three are the shocks to growth, inflation and trade
EconomicModel(country, currentYear, policy, prevData, bonus, random) ==
  LET centralBankRate == policy.centralBankRate
      exchangeRate == policy.exchangeRate
      tariffRate == policy.tariffRate
      shock == ScriptedShock(country, currentYear)
      optimalTariff == IF country = "USA" THEN 10 * Scale ELSE 15 * Scale
      gdpGrowth ==
        4000 - Mul(Abs(centralBankRate - 3000), 1, 2)
             + (exchangeRate - 1000) * (-2)
             - Mul(Abs(tariffRate - optimalTariff), 1, 10)
             + bonus + shock.gdp + (random[1] - 500) * 2
      rateEffect ==
        IF centralBankRate < 2000 THEN (2000 - centralBankRate) * 2
        ELSE IF centralBankRate > 5000
        THEN -Mul(centralBankRate - 5000, 3, 2) ELSE 0
      inflation ==
        Plus(Max(0, Plus(prevData.inflation,
                         rateEffect + (random[2] - 500) * 3)),
             shock.inflation)
      unemployment ==
        Max(500, Min(25000,
            Plus(prevData.unemployment,
                 IF gdpGrowth > 3000 THEN -Mul(gdpGrowth - 3000, 3, 10)
                 ELSE IF gdpGrowth < 1000 THEN Mul(1000 - gdpGrowth, 1, 2)
                 ELSE 0)))
      tradeBalance ==
        Plus(prevData.tradeBalance,
             (1000 - exchangeRate) * 500 + tariffRate * (-20)
             + gdpGrowth * (-100) + (random[3] - 500) * 200 + shock.trade)
      goldReserves ==
        Max(0, Plus(prevData.goldReserves,
                    IF Gt(tradeBalance, 0) THEN Mul(tradeBalance, 1, 10)
                    ELSE IF tradeBalance = NaN THEN NaN
                    ELSE Mul(tradeBalance, 15, 100)))
      industrialOutput ==
        Max(0, Plus(prevData.industrialOutput, Mul(gdpGrowth, 1, 2)))
      outputGrowth ==
        IF industrialOutput = NaN THEN NaN
        ELSE industrialOutput - prevData.industrialOutput
      goldChange ==
        IF goldReserves = NaN THEN NaN
        ELSE goldReserves - prevData.goldReserves
  IN [data |-> [gdpGrowth |-> Round(gdpGrowth, Tenth),
                goldReserves |-> Round(goldReserves, Scale),
                unemployment |-> Round(unemployment, Tenth),
                tradeBalance |-> Round(tradeBalance, Scale),
                inflation |-> Round(inflation, Tenth),
                industrialOutput |-> Round(industrialOutput, Tenth)],
      performance |->
        calculatePerformanceScore(gdpGrowth, unemployment, inflation,
                                  tradeBalance, goldChange, outputGrowth)]

\* gdpGrowth: -2.0, the penalty for not submitting a policy
NoPolicyGrowth == -2000

\* Object.keys(gameState.players).forEach of calculateYearEconomics: the
\* record of next year and the performance score of one player after another
RECURSIVE YearOfPlayers(_, _, _, _, _)
YearOfPlayers(gs, players, policies, bonus, random) ==
  IF players = <<>> THEN gs
  ELSE
    LET country == Head(players).country
        currentYear == gs.phase2.currentYear
        nextYear == currentYear + 1
        prevYearData == gs.phase2.yearlyData[currentYear]
        hasPolicy == country \in DOMAIN policies
        hasData == country \in DOMAIN prevYearData
        prevData == IF hasData THEN prevYearData[country] ELSE NoYearData
        yearScores == Field(gs.phase2, "yearScores")
        Stored(year) ==
          [gs EXCEPT
             !.phase2 =
                WithField(
                  [@ EXCEPT !.yearlyData[nextYear] =
                               Put(@, country, year.data)],
                  "yearScores",
                  Put(yearScores, nextYear,
                      Put(OrEmpty(yearScores, nextYear), country,
                          [total |-> year.performance.score,
                           breakdown |-> year.performance.breakdown]))),
             !.scores[country] = @ + year.performance.score]
        after ==
          IF ~hasPolicy \/ ~hasData
          THEN [gs EXCEPT !.phase2.yearlyData[nextYear] =
                  Put(@, country, [prevData EXCEPT !.gdpGrowth = NoPolicyGrowth])]
          ELSE With(EconomicModel(country, currentYear, policies[country],
                                  prevData, bonus[country], random),
                    Stored)
        left == IF ~hasPolicy \/ ~hasData THEN random
                ELSE SubSeq(random, 4, Len(random))
        Rest(state) == YearOfPlayers(state, Tail(players), policies, bonus, left)
    IN With(after, Rest)

\* a faulty calculateYearEconomics: only the players that are ready get a
\* record of the next year
calculateYearEconomicsOfReady(gs, random) ==
  LET currentYear == gs.phase2.currentYear
      ready == SelectSeq(gs.players,
                         LAMBDA p : Includes(gs.readyPlayers, p.id))
  IN
  IF currentYear \notin DOMAIN gs.phase2.yearlyData THEN gs
  ELSE YearOfPlayers(
         [gs EXCEPT !.phase2.yearlyData = Put(@, currentYear + 1, <<>>)],
         ready, OrEmpty(gs.phase2.policies, currentYear),
         calculateAgreementBonus(gs.scores), random)

calculateYearEconomics(gs, random) ==
  LET currentYear == gs.phase2.currentYear IN
  IF currentYear \notin DOMAIN gs.phase2.yearlyData THEN gs
  ELSE YearOfPlayers(
         [gs EXCEPT !.phase2.yearlyData = Put(@, currentYear + 1, <<>>)],
         gs.players, OrEmpty(gs.phase2.policies, currentYear),
         calculateAgreementBonus(gs.scores), random)

\* for (let year = 1946; year <= 1952; year++)
LastAchievementYear == 1952

\* the years 1946..1952 that hold a record of the country
AchievementYears(gs, country) ==
  {y \in FirstYear .. LastAchievementYear :
     /\ y \in DOMAIN gs.phase2.yearlyData
     /\ country \in DOMAIN gs.phase2.yearlyData[y]}

\* calculateFinalAchievements reads gameData, a variable server.js never
\* declares, for the first country that has a year record: a ReferenceError
FinalAchievementsThrow(gs) ==
  \E i \in DOMAIN gs.players :
     AchievementYears(gs, gs.players[i].country) # {}

\* a country without year records is skipped (years.length === 0): what
\* calculateFinalAchievements leaves when it does not throw
calculateFinalAchievements(gs) ==
  [gs EXCEPT !.phase2 = WithField(@, "achievements", Field(@, "achievements"))]

(***************************************************************************)
(* server.js: the handlers of the rounds and years                         *)
(***************************************************************************)
nextRound(w, s) ==
  LET gs == w.gameState
      After(scored) ==
        [w EXCEPT
           !.gameState =
              IF scored.currentRound >= NumIssues
              THEN initializePhase2(scored)
              ELSE [scored EXCEPT !.currentRound = @ + 1,
                                  !.readyPlayers = <<>>,
                                  !.gamePhase = "voting"],
           !.emitted = broadcastState("nextRound", <<>>)]
  IN
  IF readyQuorum(gs)
  THEN With(calculateScoresForCurrentRound(gs), After)
  ELSE Refuse(w, Silent("nextRound"))

\* the gameState literal of resetGame: the users are kept, and phase2 has
\* neither achievements nor yearScores
resetGame(w, s) ==
  [w EXCEPT
     !.gameState =
        [InitialGameState EXCEPT
           !.users = w.gameState.users,
           !.phase2 = [active |-> FALSE, currentYear |-> FirstYear,
                       maxYears |-> MaxYears, yearlyData |-> <<>>,
                       policies |-> <<>>]],
     !.emitted = broadcastState("resetGame", <<>>)]

\* parseFloat of the numerals the clients of the model send
parseFloat(numeral) ==
  CASE numeral = "0.5" -> 500
    [] numeral = "1.0" -> 1000
    [] numeral = "3.0" -> 3000
    [] numeral = "10" -> 10000
    [] numeral = "15" -> 15000

setPhase2Policies(w, s, playerId, centralBankRate, exchangeRate, tariffRate) ==
  LET gs == w.gameState
      currentYear == gs.phase2.currentYear
  IN
  IF HasPlayer(gs.players, playerId) /\ gs.phase2.active
  THEN [w EXCEPT
          !.gameState.phase2.policies =
             Put(@, currentYear,
                 Put(OrEmpty(@, currentYear),
                     PlayerOf(gs.players, playerId).country,
                     [centralBankRate |-> parseFloat(centralBankRate),
                      exchangeRate |-> parseFloat(exchangeRate),
                      tariffRate |-> parseFloat(tariffRate)])),
          !.emitted = broadcastState("setPhase2Policies", <<>>)]
  ELSE Refuse(w, Silent("setPhase2Policies"))

\* An uncaught exception ends the process: the sockets close, and the state
\* file holds what the last broadcastState saved, the state before the
\* handler (gameState stands for the file once the process is gone).
Exit(w, op) ==
  [w EXCEPT !.process = "exited", !.sockets = {}, !.emitted = Silent(op)]

advanceYear(w, s, random) ==
  LET gs == w.gameState
      After(computed) ==
        IF computed.phase2.currentYear - FirstYear < computed.phase2.maxYears
        THEN [w EXCEPT
                !.gameState = [computed EXCEPT !.phase2.currentYear = @ + 1,
                                               !.readyPlayers = <<>>],
                !.emitted = broadcastState("advanceYear", <<>>)]
        ELSE IF FinalAchievementsThrow(computed)
        THEN Exit(w, "advanceYear")
        ELSE [w EXCEPT
                !.gameState = [calculateFinalAchievements(computed)
                                 EXCEPT !.gamePhase = "complete"],
                !.emitted = broadcastState("advanceYear", <<>>)]
  IN
  IF readyQuorum(gs) /\ gs.phase2.active
  THEN With(calculateYearEconomics(gs, random), After)
  ELSE Refuse(w, Silent("advanceYear"))

\* the first player of the roster on the socket is removed
sr_disconnect(w, s) ==
  LET gs == w.gameState
      on == PlayersOnSocket(gs.players, s)
      first == CHOOSE i \in on : \A j \in on : i <= j
      playerId == gs.players[first].id
  IN
  IF on = {}
  THEN [w EXCEPT !.sockets = @ \ {s}, !.emitted = Silent("disconnect")]
  ELSE [w EXCEPT !.gameState.players = DeletePlayer(@, playerId),
                 !.gameState.readyPlayers = FilterOut(@, playerId),
                 !.sockets = @ \ {s},
                 !.emitted = broadcastState("disconnect", <<>>)]

(***************************************************************************)
(* The multi-room server and its clients                                   *)
(***************************************************************************)
World == [globalState |-> globalState, nextPlayerId |-> nextPlayerId,
          nextRoomId |-> nextRoomId, sockets |-> sockets,
          nextSocketId |-> nextSocketId, emitted |-> emitted]

\* the state of a server that found no state file
Started == [globalState |-> [users |-> <<>>, rooms |-> <<>>, roomList |-> <<>>],
            nextPlayerId |-> 1, nextRoomId |-> 1, sockets |-> {},
            nextSocketId |-> 1, emitted |-> Silent("loadState")]

SameState(v, w) == [v EXCEPT !.emitted = w.emitted] = w

\* The server handles the message req and ends in w.  A message that is
\* rejected or ignored leaves the server as it was, so what can follow it is
\* what can follow the state it found: the messages after a state are
\* explored once, from the state as the start or a state-changing message
\* left it.  The ids issued stay within the bounds.
Handle(req, w) ==
  /\ process = "server-multiroom.js"
  /\ changed
  /\ \E v \in {w} :
     /\ v.nextPlayerId <= MaxUsers + 1
     /\ v.nextRoomId <= MaxRooms + 1
     /\ v.nextSocketId <= MaxSockets + 1
     /\ SameState(v, World) \/ budget > 0
     /\ budget' = IF SameState(v, World) THEN budget ELSE budget - 1
     /\ changed' = ~SameState(v, World)
     /\ request' = req
     /\ globalState' = v.globalState
     /\ nextPlayerId' = v.nextPlayerId
     /\ nextRoomId' = v.nextRoomId
     /\ sockets' = v.sockets
     /\ nextSocketId' = v.nextSocketId
     /\ emitted' = v.emitted
     /\ UNCHANGED <<process, gameState>>

\* ids a client can send: the unknown id and every id issued so far
ActorIds == {UnknownId} \cup (1 .. (nextPlayerId - 1))

\* room ids a client can send: an id of no room and every id issued so far
RoomIds == {UnknownId} \cup (1 .. (nextRoomId - 1))

Begin(w, messages) ==
  \E v \in {w} :
    /\ process = "server-multiroom.js"
    /\ gameState = InitialGameState
    /\ globalState = v.globalState
    /\ nextPlayerId = v.nextPlayerId
    /\ nextRoomId = v.nextRoomId
    /\ sockets = v.sockets
    /\ nextSocketId = v.nextSocketId
    /\ emitted = v.emitted
    /\ budget = messages
    /\ request = <<"start">>
    /\ changed = TRUE

Init == Begin(Started, MaxMessages)

\* the socket of a message whose handler only answers on it
AnySocket == CHOOSE s \in sockets : TRUE

\* socket.on(event): a connected client sends the event with any arguments
OnConnection == Handle(<<"connection">>, connection(World))

OnRegister ==
  /\ sockets # {}
  /\ \E u \in Usernames \cup {Missing}, pw \in Passwords \cup {Missing} :
       Handle(<<"register", AnySocket, u, pw>>,
              register(World, AnySocket, u, pw))

OnLogin ==
  /\ sockets # {}
  /\ \E u \in Usernames \cup {Missing},
        pw \in Passwords \cup {Missing, WrongPassword} :
       Handle(<<"login", AnySocket, u, pw>>, login(World, AnySocket, u, pw))

OnCreateRoom ==
  /\ sockets # {}
  /\ \E p \in ActorIds, n \in RoomNames :
       Handle(<<"createRoom", AnySocket, p, n>>,
              createRoom(World, AnySocket, p, n))

OnJoinRoom ==
  /\ sockets # {}
  /\ \E r \in RoomIds : Handle(<<"joinRoom", AnySocket, r>>,
                               joinRoom(World, AnySocket, r))

OnLeaveRoom ==
  /\ sockets # {}
  /\ \E r \in RoomIds : Handle(<<"leaveRoom", AnySocket, r>>,
                               leaveRoom(World, AnySocket, r))

OnDeleteRoom ==
  /\ sockets # {}
  /\ \E r \in RoomIds, p \in ActorIds :
       Handle(<<"deleteRoom", AnySocket, r, p>>,
              deleteRoom(World, AnySocket, r, p))

OnJoinGame ==
  \E s \in sockets, r \in RoomIds, p \in ActorIds, c \in Countries :
     Handle(<<"joinGame", s, r, p, c>>, joinGame(World, s, r, p, c))

OnLeaveGame ==
  /\ sockets # {}
  /\ \E r \in RoomIds, p \in ActorIds :
       Handle(<<"leaveGame", AnySocket, r, p>>,
              leaveGame(World, AnySocket, r, p))

OnSetReady ==
  /\ sockets # {}
  /\ \E r \in RoomIds, p \in ActorIds, b \in BOOLEAN :
       Handle(<<"setReady", AnySocket, r, p, b>>,
              setReady(World, AnySocket, r, p, b))

OnStartGame ==
  /\ sockets # {}
  /\ \E r \in RoomIds, p \in ActorIds :
       Handle(<<"startGame", AnySocket, r, p>>,
              startGame(World, AnySocket, r, p))

OnVote ==
  /\ sockets # {}
  /\ \E r \in RoomIds, p \in ActorIds, c \in Choices :
       Handle(<<"vote", AnySocket, r, p, c>>, vote(World, AnySocket, r, p, c))

OnAdvanceRound ==
  /\ sockets # {}
  /\ \E r \in RoomIds, p \in ActorIds :
       Handle(<<"advanceRound", AnySocket, r, p>>,
              advanceRound(World, AnySocket, r, p))

OnResetRoom ==
  /\ sockets # {}
  /\ \E r \in RoomIds, p \in ActorIds :
       Handle(<<"resetRoom", AnySocket, r, p>>,
              resetRoom(World, AnySocket, r, p))

OnClearAllData ==
  /\ sockets # {}
  /\ \E p \in ActorIds, c \in ConfirmCodes :
       Handle(<<"clearAllData", AnySocket, p, c>>,
              clearAllData(World, AnySocket, p, c))

OnAdminDeleteRoom ==
  /\ sockets # {}
  /\ \E r \in RoomIds, p \in ActorIds :
       Handle(<<"adminDeleteRoom", AnySocket, r, p>>,
              adminDeleteRoom(World, AnySocket, r, p))

OnDisconnect == \E s \in sockets : Handle(<<"disconnect", s>>,
                                          disconnect(World, s))

Next ==
  \/ OnConnection
  \/ OnRegister
  \/ OnLogin
  \/ OnCreateRoom
  \/ OnJoinRoom
  \/ OnLeaveRoom
  \/ OnDeleteRoom
  \/ OnJoinGame
  \/ OnLeaveGame
  \/ OnSetReady
  \/ OnStartGame
  \/ OnVote
  \/ OnAdvanceRound
  \/ OnResetRoom
  \/ OnClearAllData
  \/ OnAdminDeleteRoom
  \/ OnDisconnect

Spec == Init /\ [][Next]_vars

(***************************************************************************)
(* A running game: the state the messages below leave the server in        *)
(***************************************************************************)
\* two sockets; jjucovy (superadmin, id 1) and alice (player, id 2)
\* register; alice opens room 1 and joins as USA from socket 1; a client
\* that never registered joins as UK from socket 2
Lobby ==
  joinGame(
    joinGame(
      createRoom(
        register(
          register(connection(connection(Started)), 1, "jjucovy", "secret"),
          1, "alice", "secret"),
        1, 2, "Bretton"),
      1, 1, 2, "USA"),
    2, 1, UnknownId, "UK")

\* the superadmin starts the game of room 1
Voting == startGame(Lobby, 1, 1, 1)

InitGame == Begin(Voting, MaxGameMessages)

SpecGame == InitGame /\ [][Next]_vars

(***************************************************************************)
(* Messages with a missing or malformed field, sent to the running game    *)
(***************************************************************************)
\* a choice that is none of 'for', 'against', 'abstain'
InvalidChoice == "veto"

\* createRoom without roomName
OnCreateRoomUnnamed ==
  /\ sockets # {}
  /\ \E p \in ActorIds :
       Handle(<<"createRoom", AnySocket, p, Missing>>,
              createRoom(World, AnySocket, p, Missing))

\* joinGame without country
OnJoinGameNoCountry ==
  \E s \in sockets, r \in RoomIds, p \in ActorIds :
     Handle(<<"joinGame", s, r, p, Missing>>,
            joinGame(World, s, r, p, Missing))

\* vote with a choice outside the three choices
OnVoteInvalid ==
  /\ sockets # {}
  /\ \E r \in RoomIds, p \in ActorIds :
       Handle(<<"vote", AnySocket, r, p, InvalidChoice>>,
              vote(World, AnySocket, r, p, InvalidChoice))

NextMalformed ==
  \/ Next
  \/ OnCreateRoomUnnamed
  \/ OnJoinGameNoCountry
  \/ OnVoteInvalid

\* state-changing messages per behaviour that starts in the running game
\* and may hold malformed messages
MaxMalformedMessages == 2

InitMalformed == Begin(Voting, MaxMalformedMessages)

SpecMalformed == InitMalformed /\ [][NextMalformed]_vars

(***************************************************************************)
(* A room that many clients join                                           *)
(***************************************************************************)
\* the clients that never registered
MaxGuests == 8

\* the guests on the roster at the start
SeatedGuests == 6

\* the playerId a guest sends: an id no register call has issued
GuestId(g) == -g

\* the country a guest sends: the seven countries of the game, then names
\* of its own
GuestCountry(g) ==
  CASE g = 1 -> "USA"
    [] g = 2 -> "UK"
    [] g = 3 -> "USSR"
    [] g = 4 -> "France"
    [] g = 5 -> "China"
    [] g = 6 -> "India"
    [] g = 7 -> "Argentina"
    [] g = 8 -> "Canada"
    [] g = 9 -> "Brazil"
    [] OTHER -> "Mexico"

\* joinGame of room 1 by the guests 1 to n, from socket 1
RECURSIVE GuestsJoin(_, _)
GuestsJoin(w, n) ==
  IF n = 0 THEN w
  ELSE LET Join(v) == joinGame(v, 1, 1, GuestId(n), GuestCountry(n))
       IN With(GuestsJoin(w, n - 1), Join)

\* alice (player, id 1) registers and opens room 1; the first guests join
CrowdedRoom ==
  GuestsJoin(
    createRoom(register(connection(Started), 1, "alice", "secret"),
               1, 1, "Bretton"),
    SeatedGuests)

OnJoinGameGuest ==
  /\ sockets # {}
  /\ \E r \in RoomIds, g \in 1 .. MaxGuests :
       Handle(<<"joinGame", AnySocket, r, GuestId(g), GuestCountry(g)>>,
              joinGame(World, AnySocket, r, GuestId(g), GuestCountry(g)))

OnLeaveGameGuest ==
  /\ sockets # {}
  /\ \E r \in RoomIds, g \in 1 .. MaxGuests :
       Handle(<<"leaveGame", AnySocket, r, GuestId(g)>>,
              leaveGame(World, AnySocket, r, GuestId(g)))

NextCrowd == Next \/ OnJoinGameGuest \/ OnLeaveGameGuest

MaxCrowdMessages == 2

InitCrowd == Begin(CrowdedRoom, MaxCrowdMessages)

SpecCrowd == InitCrowd /\ [][NextCrowd]_vars

(***************************************************************************)
(* The single-room server and its clients                                  *)
(***************************************************************************)
GameWorld == [process |-> process, gameState |-> gameState,
              nextPlayerId |-> nextPlayerId, sockets |-> sockets,
              nextSocketId |-> nextSocketId, emitted |-> emitted]

\* the state of a server.js that found no state file
GameStarted == [process |-> "server.js", gameState |-> InitialGameState,
                nextPlayerId |-> 1, sockets |-> {}, nextSocketId |-> 1,
                emitted |-> Silent("loadGameState")]

\* server.js handles the message req and ends in w (see Handle)
HandleGame(req, w) ==
  /\ process = "server.js"
  /\ changed
  /\ \E v \in {w} :
     /\ v.nextPlayerId <= MaxUsers + 1
     /\ v.nextSocketId <= MaxSockets + 1
     /\ SameState(v, GameWorld) \/ budget > 0
     /\ budget' = IF SameState(v, GameWorld) THEN budget ELSE budget - 1
     /\ changed' = ~SameState(v, GameWorld)
     /\ request' = req
     /\ process' = v.process
     /\ gameState' = v.gameState
     /\ nextPlayerId' = v.nextPlayerId
     /\ sockets' = v.sockets
     /\ nextSocketId' = v.nextSocketId
     /\ emitted' = v.emitted
     /\ UNCHANGED <<globalState, nextRoomId>>

BeginGame(w, messages) ==
  \E v \in {w} :
    /\ process = v.process
    /\ gameState = v.gameState
    /\ globalState = Started.globalState
    /\ nextPlayerId = v.nextPlayerId
    /\ nextRoomId = Started.nextRoomId
    /\ sockets = v.sockets
    /\ nextSocketId = v.nextSocketId
    /\ emitted = v.emitted
    /\ budget = messages
    /\ request = <<"start">>
    /\ changed = TRUE

GameConnection == HandleGame(<<"connection">>, sr_connection(GameWorld))

GameRegister ==
  /\ sockets # {}
  /\ \E u \in Usernames \cup {Missing, ShortUsername},
        pw \in Passwords \cup {Missing, ShortPassword} :
       HandleGame(<<"register", AnySocket, u, pw>>,
                  sr_register(GameWorld, AnySocket, u, pw))

GameLogin ==
  \E s \in sockets, u \in Usernames \cup {Missing},
     pw \in Passwords \cup {Missing, WrongPassword} :
     HandleGame(<<"login", s, u, pw>>, sr_login(GameWorld, s, u, pw))

GameCheckResume ==
  \E s \in sockets, p \in ActorIds :
     HandleGame(<<"checkResume", s, p>>, checkResume(GameWorld, s, p))

GameJoinGame ==
  \E s \in sockets, p \in ActorIds, c \in Countries :
     HandleGame(<<"joinGame", s, p, c>>, sr_joinGame(GameWorld, s, p, c))

GameLeaveGame ==
  /\ sockets # {}
  /\ \E p \in ActorIds :
       HandleGame(<<"leaveGame", AnySocket, p>>,
                  sr_leaveGame(GameWorld, AnySocket, p))

GameSetReady ==
  /\ sockets # {}
  /\ \E p \in ActorIds, b \in BOOLEAN :
       HandleGame(<<"setReady", AnySocket, p, b>>,
                  sr_setReady(GameWorld, AnySocket, p, b))

GameStartGame ==
  /\ sockets # {}
  /\ HandleGame(<<"startGame", AnySocket>>, sr_startGame(GameWorld, AnySocket))

GameSubmitVote ==
  /\ sockets # {}
  /\ \E p \in ActorIds, i \in DOMAIN issues, o \in OptionIds :
       HandleGame(<<"submitVote", AnySocket, p, i, o>>,
                  submitVote(GameWorld, AnySocket, p, i, o))

GameNextRound ==
  /\ sockets # {}
  /\ HandleGame(<<"nextRound", AnySocket>>, nextRound(GameWorld, AnySocket))

GameResetGame ==
  /\ sockets # {}
  /\ HandleGame(<<"resetGame", AnySocket>>, resetGame(GameWorld, AnySocket))

GameSetPhase2Policies ==
  /\ sockets # {}
  /\ \E p \in ActorIds, policy \in PolicyInputs :
       HandleGame(<<"setPhase2Policies", AnySocket, p, policy>>,
                  setPhase2Policies(GameWorld, AnySocket, p,
                                    policy[1], policy[2], policy[3]))

\* the message carries nothing; the values Math.random() returns during the
\* handler are kept with it
GameAdvanceYear ==
  /\ sockets # {}
  /\ \E random \in RandomDraws :
       HandleGame(<<"advanceYear", AnySocket, random>>,
                  advanceYear(GameWorld, AnySocket, random))

GameDisconnect ==
  \E s \in sockets :
     HandleGame(<<"disconnect", s>>, sr_disconnect(GameWorld, s))

NextGame ==
  \/ GameConnection
  \/ GameRegister
  \/ GameLogin
  \/ GameCheckResume
  \/ GameJoinGame
  \/ GameLeaveGame
  \/ GameSetReady
  \/ GameStartGame
  \/ GameSubmitVote
  \/ GameNextRound
  \/ GameResetGame
  \/ GameSetPhase2Policies
  \/ GameAdvanceYear
  \/ GameDisconnect

InitSingle == BeginGame(GameStarted, MaxSingleMessages)

SpecSingle == InitSingle /\ [][NextGame]_vars

(***************************************************************************)
(* Games in progress: the states the messages below leave server.js in     *)
(***************************************************************************)
\* setReady(true) by every player of the roster, on socket 1
RECURSIVE EveryoneReady(_, _)
EveryoneReady(w, players) ==
  IF players = <<>> THEN w
  ELSE LET Rest(v) == EveryoneReady(v, Tail(players))
       IN With(sr_setReady(w, 1, Head(players).id, TRUE), Rest)

\* n times: everyone is ready, then nextRound
RECURSIVE PlayRounds(_, _)
PlayRounds(w, n) ==
  IF n = 0 THEN w
  ELSE LET OneRound(v) == nextRound(v, 1)
           Rest(v) == PlayRounds(v, n - 1)
       IN With(With(EveryoneReady(w, w.gameState.players), OneRound), Rest)

\* n times: everyone is ready, then advanceYear (every Math.random() gives 0.5)
RECURSIVE PlayYears(_, _)
PlayYears(w, n) ==
  IF n = 0 THEN w
  ELSE LET OneYear(v) == advanceYear(v, 1, NoShock)
           Rest(v) == PlayYears(v, n - 1)
       IN With(With(EveryoneReady(w, w.gameState.players), OneYear), Rest)

\* two sockets; alice (id 1) and jjucovy (id 2) register; alice joins as USA
\* from socket 1
Solo ==
  sr_joinGame(
    sr_register(
      sr_register(sr_connection(sr_connection(GameStarted)),
                  1, "alice", "secret"),
      2, "jjucovy", "secret"),
    1, 1, "USA")

\* jjucovy joins as UK from socket 2, both are ready, and the game starts
RoundOne ==
  LET lobby == sr_joinGame(Solo, 2, 2, "UK")
  IN sr_startGame(EveryoneReady(lobby, lobby.gameState.players), 1)

\* the same game in its last scripted round
FinalRound == PlayRounds(RoundOne, NumIssues - 1)

\* the same, for the behaviours that start in a Phase 1 round
MaxRoundMessages == 3

InitRounds ==
  \/ BeginGame(RoundOne, MaxRoundMessages)
  \/ BeginGame(FinalRound, MaxRoundMessages)

SpecRounds == InitRounds /\ [][NextGame]_vars

\* alice plays alone through the rounds and the years 1946 to 1951
Year1952 ==
  PlayYears(
    PlayRounds(sr_startGame(EveryoneReady(Solo, Solo.gameState.players), 1),
               NumIssues),
    LastAchievementYear - FirstYear)

\* in 1952 jjucovy joins as UK from socket 2; the year is advanced, and
\* jjucovy submits a policy for 1953
Year1953 ==
  setPhase2Policies(
    PlayYears(sr_joinGame(Year1952, 2, 2, "UK"), 1),
    2, 2, "3.0", "1.0", "10")

\* the same, but alice left the game in 1952, after jjucovy had joined
Year1953Alone ==
  setPhase2Policies(
    PlayYears(sr_leaveGame(sr_joinGame(Year1952, 2, 2, "UK"), 1, 1), 1),
    2, 2, "3.0", "1.0", "10")

\* the same, for the behaviours that start in 1953
MaxEndgameMessages == 2

\* the last year of either game, every player of the roster being ready
InitEndgame ==
  \/ BeginGame(EveryoneReady(Year1953, Year1953.gameState.players),
               MaxEndgameMessages)
  \/ BeginGame(EveryoneReady(Year1953Alone, Year1953Alone.gameState.players),
               MaxEndgameMessages)

SpecEndgame == InitEndgame /\ [][NextGame]_vars

\* submitVote of optionId on the issue by every player of the roster
RECURSIVE EveryoneVotes(_, _, _, _)
EveryoneVotes(w, players, issueId, optionId) ==
  IF players = <<>> THEN w
  ELSE LET Rest(v) == EveryoneVotes(v, Tail(players), issueId, optionId)
       IN With(submitVote(w, 1, Head(players).id, issueId, optionId), Rest)

\* n times: everyone votes optionId on the issue of the round, everyone is
\* ready, then nextRound
RECURSIVE VoteRounds(_, _, _)
VoteRounds(w, n, optionId) ==
  IF n = 0 THEN w
  ELSE LET Voted(v) ==
             EveryoneVotes(v, v.gameState.players,
                           issues[v.gameState.currentRound].id, optionId)
           Rest(v) == VoteRounds(v, n - 1, optionId)
       IN With(PlayRounds(With(w, Voted), 1), Rest)

\* Phase 2 begins after rounds without a vote (option A won them: the USA
\* has 20 points, the UK -10)
Year1946 == PlayRounds(RoundOne, NumIssues)

\* Phase 2 begins after rounds in which everyone voted B (the USA has no
\* points, the UK 20)
Year1946Even == VoteRounds(RoundOne, NumIssues, "B")

\* the behaviours that start in 1946, every player being ready
MaxEconomyMessages == 3

InitEconomy ==
  \/ BeginGame(EveryoneReady(Year1946, Year1946.gameState.players),
               MaxEconomyMessages)
  \/ BeginGame(EveryoneReady(Year1946Even, Year1946Even.gameState.players),
               MaxEconomyMessages)

SpecEconomy == InitEconomy /\ [][NextGame]_vars

\* an option id that no issue lists
UnknownOption == "Z"

\* submitVote stores whatever optionId the client sends
GameSubmitVoteUnknown ==
  /\ sockets # {}
  /\ \E p \in ActorIds, i \in DOMAIN issues :
       HandleGame(<<"submitVote", AnySocket, p, i, UnknownOption>>,
                  submitVote(GameWorld, AnySocket, p, i, UnknownOption))

NextBallots == NextGame \/ GameSubmitVoteUnknown

\* the behaviours that start in round 1, every player being ready
MaxBallotMessages == 3

InitBallots ==
  BeginGame(EveryoneReady(RoundOne, RoundOne.gameState.players),
            MaxBallotMessages)

SpecBallots == InitBallots /\ [][NextBallots]_vars

(***************************************************************************)
(* Properties of the multi-room server                                     *)
(***************************************************************************)
Rooms == globalState.rooms

\* the actor of the message is a registered user with the role superadmin
ActorIsSuperAdmin(gs, pid) ==
  \E u \in DOMAIN gs.users :
     gs.users[u].playerId = pid /\ gs.users[u].role = "superadmin"

\* the messages whose second argument is the room and third the actor
RoomActorEvents ==
  {"deleteRoom", "joinGame", "leaveGame", "setReady", "startGame", "vote",
   "advanceRound", "resetRoom", "adminDeleteRoom"}

\* the superadmin-only messages among them
AdminEvents == {"startGame", "advanceRound", "resetRoom", "adminDeleteRoom"}

\* C2: vote scoring fires once per round: a vote handled while the room is
\* in phase 'results' (the round is resolved, no advanceRound or resetRoom
\* since) changes no score of the room.
C2_VoteAfterResultsKeepsScores ==
  [][\A r \in DOMAIN Rooms :
       (/\ request'[1] = "vote"
        /\ Rooms[r].gamePhase = "results"
        /\ r \in DOMAIN globalState'.rooms)
       => globalState'.rooms[r].scores = Rooms[r].scores]_vars

\* the number of players of the roster whose recorded vote is choice
CountOf(room, choice) ==
  Cardinality({i \in DOMAIN room.players :
                 room.votes[room.players[i].id] = choice})

\* the points the claim grants for a vote under an outcome
ClaimedPoints(choice, outcome) ==
  10 + (IF \/ choice = "for" /\ outcome = "passed"
           \/ choice = "against" /\ outcome = "failed"
        THEN 30 ELSE 0)
     + (IF choice = "abstain" THEN 5 ELSE 0)

\* the vote of the step gave every current player of room r a recorded vote,
\* and the ledger holds votes of current players only
CompletesRound(r) ==
  /\ request'[1] = "vote"
  /\ request'[3] = r
  /\ r \in DOMAIN Rooms
  /\ Rooms[r].gameStarted
  /\ HasPlayer(Rooms[r].players, request'[4])
  /\ LET after == globalState'.rooms[r]
     IN /\ DOMAIN after.votes = PlayerIds(after.players)
        /\ \A p \in DOMAIN after.votes : after.votes[p] \in Choices

C4_StartGameNeedsTwoPlayers ==
  [][(/\ request'[1] = "startGame"
      /\ request'[3] \in DOMAIN Rooms
      /\ ActorIsSuperAdmin(globalState, request'[4])
      /\ Len(Rooms[request'[3]].players) < 2)
     => /\ globalState' = globalState
        /\ emitted'.stateUpdate = {}
        /\ emitted'.roomListUpdate = 0
        /\ emitted'.saveState = 0
        /\ Len(emitted'.toActor) = 1
        /\ emitted'.toActor[1].event = "startGameResult"
        /\ emitted'.toActor[1].success = FALSE]_vars

\* the superadmin's startGame on a lobby room with one player was refused
C4_Witness ==
  /\ request[1] = "startGame"
  /\ request[3] \in DOMAIN Rooms
  /\ ActorIsSuperAdmin(globalState, request[4])
  /\ Len(Rooms[request[3]].players) = 1
  /\ Rooms[request[3]].gamePhase = "lobby"
  /\ ~Rooms[request[3]].gameStarted
  /\ emitted.toActor =
       <<Msg("startGameResult", FALSE, "Need at least 2 players to start")>>

\* the actor of an administrative message
AdminActor(req) == IF req[1] = "clearAllData" THEN req[3] ELSE req[4]

\* C5: startGame, advanceRound, resetRoom, adminDeleteRoom and clearAllData
\* sent by an actor that is not a registered superadmin leave globalState
\* (all rooms and users) unchanged.
C5_AdminActionsNeedSuperAdmin ==
  [][(/\ request'[1] \in AdminEvents \cup {"clearAllData"}
      /\ ~ActorIsSuperAdmin(globalState, AdminActor(request')))
     => globalState' = globalState]_vars

\* a registered player's resetRoom on an existing room was refused
C5_Witness ==
  /\ request[1] = "resetRoom"
  /\ request[3] \in DOMAIN Rooms
  /\ \E u \in DOMAIN globalState.users :
        /\ globalState.users[u].playerId = request[4]
        /\ globalState.users[u].role = "player"
  /\ emitted.toActor =
       <<Msg("resetRoomResult", FALSE, "Only the administrator can reset games")>>

\* C6: a room leaves phase 'lobby' for 'voting' only by a superadmin's
\* startGame on a room of at least 2 players.
C6_LobbyLeftOnlyByStartGame ==
  [][\A r \in DOMAIN Rooms :
       (/\ Rooms[r].gamePhase = "lobby"
        /\ r \in DOMAIN globalState'.rooms
        /\ globalState'.rooms[r].gamePhase # "lobby")
       => /\ request'[1] = "startGame"
          /\ request'[3] = r
          /\ ActorIsSuperAdmin(globalState, request'[4])
          /\ Len(Rooms[r].players) >= 2
          /\ globalState'.rooms[r].gamePhase = "voting"
          /\ globalState'.rooms[r].gameStarted]_vars

\* the message req meets one of the rejection conditions in state gs
Rejected(gs, req) ==
  LET ev == req[1] IN
  \/ /\ ev \in RoomActorEvents \cup {"joinRoom"}
     /\ req[3] \notin DOMAIN gs.rooms
  \/ /\ ev \in AdminEvents
     /\ ~ActorIsSuperAdmin(gs, req[4])
  \/ /\ ev = "clearAllData"
     /\ ~ActorIsSuperAdmin(gs, req[3]) \/ req[4] # "CLEAR_ALL_DATA"
  \/ /\ ev = "deleteRoom"
     /\ req[3] \in DOMAIN gs.rooms
     /\ gs.rooms[req[3]].hostId # req[4]
  \/ /\ ev = "startGame"
     /\ req[3] \in DOMAIN gs.rooms
     /\ Len(gs.rooms[req[3]].players) < 2
  \/ /\ ev = "joinGame"
     /\ req[3] \in DOMAIN gs.rooms
     /\ \E i \in DOMAIN gs.rooms[req[3]].players :
           gs.rooms[req[3]].players[i].country = req[5]
  \/ /\ ev = "register"
     /\ req[3] \in DOMAIN gs.users
  \/ /\ ev = "vote"
     /\ req[3] \in DOMAIN gs.rooms
     /\ \/ ~gs.rooms[req[3]].gameStarted
        \/ \A i \in DOMAIN gs.rooms[req[3]].players :
              gs.rooms[req[3]].players[i].id # req[4]

\* C10: a rejected message leaves globalState as it was and sends no
\* stateUpdate and no roomListUpdate; at most one result goes to the sender.
C10_RejectionChangesNothing ==
  [][Rejected(globalState, request')
     => /\ globalState' = globalState
        /\ emitted'.stateUpdate = {}
        /\ emitted'.roomListUpdate = 0
        /\ emitted'.roomDeleted = {}
        /\ Len(emitted'.toActor) <= 1
        /\ \A i \in DOMAIN emitted'.toActor :
              ~emitted'.toActor[i].success]_vars

\* a deleteRoom by an actor who is not the host of a room with players was
\* refused
C10_Witness ==
  /\ request[1] = "deleteRoom"
  /\ request[3] \in DOMAIN Rooms
  /\ Rooms[request[3]].hostId # request[4]
  /\ Len(Rooms[request[3]].players) > 0
  /\ emitted.toActor =
       <<Msg("deleteRoomResult", FALSE, "Only host can delete room")>>

(***************************************************************************)
(* Properties of the single-room server, and of both servers               *)
(***************************************************************************)
\* either server, started without a state file
InitBoth ==
  \/ Begin(Started, MaxMessages)
  \/ BeginGame(GameStarted, MaxSingleMessages)

NextBoth == Next \/ NextGame

SpecBoth == InitBoth /\ [][NextBoth]_vars

\* no two entries of the roster hold the same country
UniqueCountries(players) ==
  \A i, j \in DOMAIN players :
     i # j => players[i].country # players[j].country

\* C1: in either server, no two distinct players on the roster of the same
\* room hold the same country.
C1_CountriesUnique ==
  /\ \A r \in DOMAIN Rooms : UniqueCountries(Rooms[r].players)
  /\ UniqueCountries(gameState.players)

\* server.js refused a joinGame for a country that one of the two players
\* of the roster holds
C1_Witness ==
  /\ process = "server.js"
  /\ request[1] = "joinGame"
  /\ Len(gameState.players) = 2
  /\ \E i \in DOMAIN gameState.players :
        /\ gameState.players[i].country = request[4]
        /\ gameState.players[i].id # request[3]
  /\ emitted.toActor = <<Msg("joinResult", FALSE, "Country already taken")>>

\* the roster is not empty and every player on it is in the ready set
EveryPlayerReady(gs) ==
  /\ gs.players # <<>>
  /\ \A i \in DOMAIN gs.players :
        \E k \in DOMAIN gs.readyPlayers :
           gs.readyPlayers[k] = gs.players[i].id

\* C7: in the single-room server, startGame, nextRound and advanceYear
\* change the game state only when the roster is not empty and every
\* current player is marked ready.
C7_GatedByEveryPlayerReady ==
  [][(/\ process = "server.js"
      /\ request'[1] \in {"startGame", "nextRound", "advanceYear"}
      /\ ~EveryPlayerReady(gameState))
     => gameState' = gameState]_vars

C9_NoScoresAfterComplete ==
  [][(/\ process = "server.js"
      /\ gameState.gamePhase = "complete"
      /\ request'[1] = "advanceYear")
     => gameState'.scores = gameState.scores]_vars

(***************************************************************************)
(* Properties of the multi-room server: malformed messages, side effects,  *)
(* disconnection, rooms                                                    *)
(***************************************************************************)
\* C11: a message with a missing or malformed field is rejected without a
\* state change: createRoom without roomName creates no room, joinGame
\* without country adds no roster entry, and a vote whose choice is none
\* of 'for', 'against', 'abstain' records no vote and changes no tally or
\* score.
C11_MalformedChangesNothing ==
  [][(\/ request'[1] = "createRoom" /\ request'[4] = Missing
      \/ request'[1] = "joinGame" /\ request'[5] = Missing
      \/ request'[1] = "vote" /\ request'[5] \notin Choices)
     => globalState'.rooms = Rooms]_vars

\* the messages that change a room
RoomChangingEvents ==
  {"joinGame", "leaveGame", "setReady", "startGame", "vote", "advanceRound",
   "resetRoom", "disconnect"}

\* C12: a handler that changes a room broadcasts that room's state and
\* saves the state in the same step.
C12_RoomChangeIsSavedAndBroadcast ==
  [][\A r \in DOMAIN Rooms :
       (/\ request'[1] \in RoomChangingEvents
        /\ r \in DOMAIN globalState'.rooms
        /\ globalState'.rooms[r] # Rooms[r])
       => /\ r \in emitted'.stateUpdate
          /\ emitted'.saveState >= 1]_vars

\* a vote resolved the round of room 1: the room was broadcast and saved
C12_Witness ==
  /\ request[1] = "vote"
  /\ changed
  /\ 1 \in DOMAIN Rooms
  /\ Rooms[1].gamePhase = "results"
  /\ emitted.stateUpdate = {1}
  /\ emitted.saveState = 1

\* the messages the claim lists as answered
AnsweredEvents ==
  {"register", "login", "createRoom", "joinRoom", "leaveRoom", "deleteRoom",
   "joinGame", "leaveGame", "setReady", "startGame", "vote", "advanceRound",
   "resetRoom"}

\* C13: each of these messages is answered by exactly one result message
\* to the acting socket, whether it succeeds or is rejected.
C13_OneResultPerMessage ==
  [][request'[1] \in AnsweredEvents => Len(emitted'.toActor) = 1]_vars

\* the roster with the fields a disconnect may not touch
Seats(players) ==
  [i \in DOMAIN players |-> <<players[i].id, players[i].country>>]

\* C14: a disconnect removes no player: in every room the ids and
\* countries of the roster, the scores, the votes and the phase stay; a
\* player's entry changes only in its disconnected flag, and only ids of
\* players on the closed socket leave the ready set.
C14_DisconnectKeepsPlayers ==
  [][request'[1] = "disconnect"
     => /\ DOMAIN globalState'.rooms = DOMAIN Rooms
        /\ \A r \in DOMAIN Rooms :
             LET old == Rooms[r]
                 new == globalState'.rooms[r]
             IN /\ [new EXCEPT !.players = old.players,
                               !.readyPlayers = old.readyPlayers] = old
                /\ Seats(new.players) = Seats(old.players)
                /\ \A i \in DOMAIN old.players :
                      \/ new.players[i] = old.players[i]
                      \/ /\ old.players[i].socketId = request'[2]
                         /\ new.players[i] =
                              [old.players[i] EXCEPT !.disconnected = TRUE]
                /\ \A k \in DOMAIN new.readyPlayers :
                      Includes(old.readyPlayers, new.readyPlayers[k])
                /\ \A k \in DOMAIN old.readyPlayers :
                      \/ Includes(new.readyPlayers, old.readyPlayers[k])
                      \/ \E i \in DOMAIN old.players :
                            /\ old.players[i].id = old.readyPlayers[k]
                            /\ old.players[i].socketId = request'[2]]_vars

\* a player of a resolved round disconnected: both players are on the
\* roster, one is flagged, and the round's scores are kept
C14_Witness ==
  /\ request[1] = "disconnect"
  /\ changed
  /\ 1 \in DOMAIN Rooms
  /\ Rooms[1].gamePhase = "results"
  /\ Len(Rooms[1].players) = 2
  /\ \E i \in DOMAIN Rooms[1].players : Rooms[1].players[i].disconnected
  /\ Rooms[1].scores["USA"] > 0

\* C15: a player flagged as disconnected by disconnect who comes back to the room,
\* joinGame with the same player id and country from another socket, is no
\* longer flagged.  (joinRoom carries no player id and writes no roster.)
C15_ReconnectClearsFlag ==
  [][\A r \in DOMAIN Rooms :
       (/\ request'[1] = "joinGame"
        /\ request'[3] = r
        /\ HasPlayer(Rooms[r].players, request'[4])
        /\ PlayerOf(Rooms[r].players, request'[4]).country = request'[5]
        /\ PlayerOf(Rooms[r].players, request'[4]).socketId # request'[2]
        /\ PlayerOf(Rooms[r].players, request'[4]).disconnected
        /\ r \in DOMAIN globalState'.rooms)
       => /\ HasPlayer(globalState'.rooms[r].players, request'[4])
          /\ ~PlayerOf(globalState'.rooms[r].players,
                       request'[4]).disconnected]_vars

\* C16: no player id is on the roster of two rooms.
C16_OneRoomPerPlayer ==
  \A a \in DOMAIN Rooms : \A b \in DOMAIN Rooms :
     a # b => PlayerIds(Rooms[a].players) \cap PlayerIds(Rooms[b].players) = {}

\* the messages that carry the id of the room they act on
RoomScopedEvents ==
  {"joinGame", "leaveGame", "setReady", "startGame", "vote", "advanceRound",
   "resetRoom", "deleteRoom", "adminDeleteRoom"}

\* C17: a message that carries room id A leaves every other room as it was.
C17_OtherRoomsUntouched ==
  [][request'[1] \in RoomScopedEvents
     => \A b \in DOMAIN Rooms \ {request'[3]} :
           /\ b \in DOMAIN globalState'.rooms
           /\ globalState'.rooms[b] = Rooms[b]]_vars

\* a player left the game of room 1 while room 2 had a player of its own
C17_Witness ==
  /\ request[1] = "leaveGame"
  /\ request[3] = 1
  /\ changed
  /\ DOMAIN Rooms = {1, 2}
  /\ Len(Rooms[1].players) = 1
  /\ Rooms[2].players # <<>>

(***************************************************************************)
(* Properties of the single-room server: the year records                  *)
(***************************************************************************)
\* the years for which the country has a year record
RecordYears(gs, country) ==
  {y \in DOMAIN gs.phase2.yearlyData : country \in DOMAIN gs.phase2.yearlyData[y]}

\* C18: a year record, once computed, is immutable: no handled message but
\* resetGame changes or removes yearlyData[y][country].
C18_YearRecordImmutable ==
  [][request'[1] # "resetGame"
     => \A y \in DOMAIN gameState.phase2.yearlyData :
          \A c \in DOMAIN gameState.phase2.yearlyData[y] :
             /\ y \in DOMAIN gameState'.phase2.yearlyData
             /\ c \in DOMAIN gameState'.phase2.yearlyData[y]
             /\ gameState'.phase2.yearlyData[y][c]
                  = gameState.phase2.yearlyData[y][c]]_vars

\* C19: while Phase 2 is active, the years of the records of every country
\* on the roster run without a gap from 1946 to the latest computed year.
C19_YearRecordsGapless ==
  (process = "server.js" /\ gameState.phase2.active)
  => \A i \in DOMAIN gameState.players :
        \E last \in DOMAIN gameState.phase2.yearlyData :
           /\ \A y \in DOMAIN gameState.phase2.yearlyData : y <= last
           /\ RecordYears(gameState, gameState.players[i].country)
                = FirstYear .. last

\* C20: when advanceYear computes a year and a country on the roster has a
\* record of the current year but no policy for it, the handler does not
\* fail, and the country's record of the next year is that record with
\* gdpGrowth -2.0 and every other field as it was.
C20_NoPolicyCarriesForward ==
  [][(/\ request'[1] = "advanceYear"
      /\ process = "server.js"
      /\ readyQuorum(gameState)
      /\ gameState.phase2.active
      /\ gameState.phase2.currentYear \in DOMAIN gameState.phase2.yearlyData)
     => \A i \in DOMAIN gameState.players :
          LET country == gameState.players[i].country
              currentYear == gameState.phase2.currentYear
              prevYearData == gameState.phase2.yearlyData[currentYear]
          IN (/\ country \notin DOMAIN OrEmpty(gameState.phase2.policies,
                                               currentYear)
              /\ country \in DOMAIN prevYearData)
             => /\ process' = "server.js"
                /\ currentYear + 1 \in DOMAIN gameState'.phase2.yearlyData
                /\ country \in DOMAIN gameState'.phase2.yearlyData[currentYear + 1]
                /\ gameState'.phase2.yearlyData[currentYear + 1][country]
                     = [prevYearData[country]
                          EXCEPT !.gdpGrowth = NoPolicyGrowth]]_vars

(***************************************************************************)
(* Properties of the single-room server: the economy of a year             *)
(***************************************************************************)
\* policy {centralBankRate: 3.0, exchangeRate: 1.0, tariffRate: 10}
ReferencePolicy ==
  [centralBankRate |-> 3000, exchangeRate |-> 1000, tariffRate |-> 10 * Scale]

\* advanceYear is handled in 1946 and computes the year; Math.random()
\* returns 0.5, so that every random term is zero
ZeroShockYear1946 ==
  /\ request'[1] = "advanceYear"
  /\ request'[3] = NoShock
  /\ process = "server.js"
  /\ readyQuorum(gameState)
  /\ gameState.phase2.active
  /\ gameState.phase2.currentYear = FirstYear
  /\ FirstYear \in DOMAIN gameState.phase2.yearlyData

\* the country has a record of 1946, submitted the reference policy for
\* 1946, and has no agreement bonus
ReferenceCase(country) ==
  /\ country \in DOMAIN gameState.phase2.yearlyData[FirstYear]
  /\ country \in DOMAIN OrEmpty(gameState.phase2.policies, FirstYear)
  /\ gameState.phase2.policies[FirstYear][country] = ReferencePolicy
  /\ calculateAgreementBonus(gameState.scores)[country] = 0

\* the record of 1947: growth 4.0, unemployment 0.3 lower, inflation as it
\* was, trade balance lower by 10 x 20 (tariff) and 4.0 x 100 (growth)
ReferenceOutcome(country) ==
  LET prevData == gameState.phase2.yearlyData[FirstYear][country]
      data == gameState'.phase2.yearlyData[FirstYear + 1][country]
  IN /\ data.gdpGrowth = 4000
     /\ data.unemployment = prevData.unemployment - 300
     /\ data.inflation = prevData.inflation
     /\ data.tradeBalance = prevData.tradeBalance - 200 * Scale - 400 * Scale

\* C21 as stated: for any country on the roster, the reference policy in
\* 1946 with zero agreement bonus and zero random terms gives growth 4.0,
\* unemployment 0.3 lower, inflation unchanged, and a trade balance changed
\* by the tariff and growth terms only.
C21_ReferencePolicyAnyCountry ==
  [][ZeroShockYear1946
     => \A i \in DOMAIN gameState.players :
          ReferenceCase(gameState.players[i].country)
          => ReferenceOutcome(gameState.players[i].country)]_vars

\* C21, amended: the same for the USA, the one country whose optimal
\* tariff is 10.
C21_ReferencePolicyUSA ==
  [][ZeroShockYear1946
     => \A i \in DOMAIN gameState.players :
          (gameState.players[i].country = "USA" /\ ReferenceCase("USA"))
          => ReferenceOutcome("USA")]_vars

\* the year 1946 of a USA without points was advanced with the reference
\* policy and no random shock
C21_Witness ==
  /\ request[1] = "advanceYear"
  /\ request[3] = NoShock
  /\ changed
  /\ gameState.phase2.currentYear = FirstYear + 1
  /\ FirstYear \in DOMAIN gameState.phase2.policies
  /\ "USA" \in DOMAIN gameState.phase2.policies[FirstYear]
  /\ gameState.phase2.policies[FirstYear]["USA"] = ReferencePolicy
  /\ "USA" \in DOMAIN gameState.phase2.yearlyData[FirstYear + 1]
  /\ gameState.phase2.yearlyData[FirstYear + 1]["USA"].gdpGrowth = 4000
  /\ gameState.phase2.yearlyData[FirstYear + 1]["USA"].unemployment = 3600
  /\ gameState.phase2.yearlyData[FirstYear + 1]["USA"].tradeBalance
       = 7400 * Scale

\* what calculateYearEconomics reads: the year, the roster, the records, the
\* policies and the scores; every other field is as in a new game
EconomyInputs(gs) ==
  [InitialGameState EXCEPT
     !.players = [i \in DOMAIN gs.players |->
                    [id |-> gs.players[i].id,
                     country |-> gs.players[i].country, socketId |-> 0]],
     !.scores = gs.scores,
     !.phase2 = gs.phase2]

\* what calculateYearEconomics writes: year records, year scores, scores
EconomyOutputs(gs) ==
  <<gs.phase2.yearlyData, Field(gs.phase2, "yearScores"), gs.scores>>

C23_AgreementBonusIsFixed ==
  [][(/\ request'[1] = "advanceYear"
      /\ process = "server.js"
      /\ process' = "server.js"
      /\ gameState.phase2.active
      /\ gameState'.gamePhase = "phase2")
     => \A i \in DOMAIN gameState.players :
          calculateAgreementBonus(gameState'.scores)[gameState.players[i].country]
            = calculateAgreementBonus(gameState.scores)[gameState.players[i].country]]_vars

(***************************************************************************)
(* Properties of the single-room server: the resolution of a round         *)
(***************************************************************************)
\* the countries of the current players
Held(gs) == {gs.players[i].country : i \in DOMAIN gs.players}

\* the number of current players whose recorded vote on the issue is the
\* option
VotesFor(gs, issue, option) ==
  Cardinality({c \in Held(gs) :
                 /\ voteKey(issue.id, c) \in DOMAIN gs.votes
                 /\ gs.votes[voteKey(issue.id, c)] = option.id})

\* the option with the highest count, the first listed among equals
Winner(gs, issue) ==
  issue.options[
    CHOOSE k \in DOMAIN issue.options :
      \A j \in DOMAIN issue.options :
         \/ VotesFor(gs, issue, issue.options[k])
              > VotesFor(gs, issue, issue.options[j])
         \/ /\ VotesFor(gs, issue, issue.options[k])
                 = VotesFor(gs, issue, issue.options[j])
            /\ k <= j]

\* C24: the nextRound that resolves a Phase-1 round takes as winner the
\* option with the highest count of votes of current players, the first
\* listed on a tie, and adds 10 to the score of every held country the
\* winner favors, takes 5 from every held country it opposes, and leaves
\* every other score as it was.
C24_WinnerAndDeltas ==
  [][(/\ request'[1] = "nextRound"
      /\ process = "server.js"
      /\ readyQuorum(gameState)
      /\ gameState.gamePhase = "voting"
      /\ gameState.currentRound \in DOMAIN issues)
     => LET winner == Winner(gameState, issues[gameState.currentRound])
        IN gameState'.scores =
             [c \in DOMAIN gameState.scores |->
                gameState.scores[c]
                + (IF c \in Held(gameState) /\ c \in winner.favors
                   THEN 10 ELSE 0)
                - (IF c \in Held(gameState) /\ c \in winner.opposes
                   THEN 5 ELSE 0)]]_vars

\* C25: a Phase-1 round is resolved at most once between resets:
\* roundHistory holds no two entries with the same round number (each entry
\* is one application of the deltas of the round's issue).
C25_RoundResolvedOnce ==
  \A i \in DOMAIN gameState.roundHistory :
     \A j \in DOMAIN gameState.roundHistory :
        i # j => gameState.roundHistory[i].round # gameState.roundHistory[j].round

\* the sum of yearScores[year][country].total over the years of the set
RECURSIVE YearTotals(_, _, _)
YearTotals(yearScores, years, country) ==
  IF years = {} THEN 0
  ELSE LET y == CHOOSE x \in years : TRUE
       IN (IF country \in DOMAIN yearScores[y]
           THEN yearScores[y][country].total ELSE 0)
          + YearTotals(yearScores, years \ {y}, country)

\* the points the records of the state account for in Phase 2: the year
\* scores of the country and its achievement bonus
Phase2Recorded(gs, country) ==
  YearTotals(Field(gs.phase2, "yearScores"),
             DOMAIN Field(gs.phase2, "yearScores"), country)
  + (IF country \in DOMAIN Field(gs.phase2, "achievements")
     THEN gs.phase2.achievements[country].totalBonus ELSE 0)

\* the Phase-1 delta of one roundHistory entry for a country
RoundDelta(entry, country) ==
  LET options == issues[entry.round].options
      k == CHOOSE x \in DOMAIN options : options[x].text = entry.winningOption
  IN (IF country \in options[k].favors THEN 10 ELSE 0)
     - (IF country \in options[k].opposes THEN 5 ELSE 0)

\* the deltas of the entries from position `from` on
RECURSIVE RoundDeltas(_, _, _)
RoundDeltas(history, from, country) ==
  IF from > Len(history) THEN 0
  ELSE RoundDelta(history[from], country)
       + RoundDeltas(history, from + 1, country)

\* C26: scores are auditable, a score being the sum of the Phase-1 deltas of
\* the rounds in roundHistory, of the recorded year scores and of the
\* achievement bonus.  Step by step: whatever a message other than
\* resetGame adds to a score, it adds to these records (the deltas of the
\* roundHistory entries it appends, for the countries then on the roster,
\* and the change of the recorded year scores and bonus).
C26_ScoresAreAuditable ==
  [][(/\ process = "server.js"
      /\ process' = "server.js"
      /\ request'[1] # "resetGame"
      /\ Len(gameState'.roundHistory) >= Len(gameState.roundHistory))
     => \A c \in DOMAIN gameState.scores :
          gameState'.scores[c] - gameState.scores[c]
            = (IF c \in Held(gameState)
               THEN RoundDeltas(gameState'.roundHistory,
                                Len(gameState.roundHistory) + 1, c)
               ELSE 0)
              + Phase2Recorded(gameState', c) - Phase2Recorded(gameState, c)]_vars

(***************************************************************************)
(* Properties of the multi-room server: users and rooms                    *)
(***************************************************************************)
Users == globalState.users

\* the message is a clearAllData of a superadmin with the exact code
ClearsAllData(req) ==
  /\ req[1] = "clearAllData"
  /\ isSuperAdmin(Users, req[3])
  /\ req[4] = "CLEAR_ALL_DATA"

\* C27: a registered user record is stable.  A register for an existing
\* username is rejected; a record that stays keeps its password digest,
\* playerId and role; a record goes only with a clearAllData of a superadmin
\* with the exact confirmation code, which keeps every superadmin and
\* removes all rooms.
C27_UserRecordIsStable ==
  [][\A u \in DOMAIN Users :
       /\ (request'[1] = "register" /\ request'[3] = u)
          => /\ globalState'.users = Users
             /\ Len(emitted'.toActor) = 1
             /\ ~emitted'.toActor[1].success
       /\ u \in DOMAIN globalState'.users => globalState'.users[u] = Users[u]
       /\ u \notin DOMAIN globalState'.users
          => /\ ClearsAllData(request')
             /\ Users[u].role # "superadmin"
             /\ globalState'.rooms = <<>>]_vars

\* the superadmin cleared all data: alice and the room are gone
C27_Witness ==
  /\ request[1] = "clearAllData"
  /\ changed
  /\ DOMAIN Users = {"jjucovy"}
  /\ Users["jjucovy"].role = "superadmin"
  /\ Rooms = <<>>

\* C28: the roster of a room never holds more players than the room's
\* maxPlayers (7).
C28_RosterWithinMaxPlayers ==
  \A r \in DOMAIN Rooms : Len(Rooms[r].players) <= Rooms[r].maxPlayers

\* C29: a room leaves the registry only by a deleteRoom with the playerId
\* of its host, by an adminDeleteRoom of a superadmin, or by a successful
\* clearAllData; a deleteRoom of any other actor leaves the room in place
\* and as it was.
C29_RoomRemovedOnlyByHostOrAdmin ==
  [][\A r \in DOMAIN Rooms :
       /\ r \notin DOMAIN globalState'.rooms
          => \/ /\ request'[1] = "deleteRoom"
                /\ request'[3] = r
                /\ request'[4] = Rooms[r].hostId
             \/ /\ request'[1] = "adminDeleteRoom"
                /\ request'[3] = r
                /\ isSuperAdmin(Users, request'[4])
             \/ ClearsAllData(request')
       /\ (/\ request'[1] = "deleteRoom"
           /\ request'[3] = r
           /\ request'[4] # Rooms[r].hostId)
          => /\ r \in DOMAIN globalState'.rooms
             /\ globalState'.rooms[r] = Rooms[r]]_vars

\* the superadmin, who is not the host, deleted the running room 1 with
\* adminDeleteRoom
C29_Witness ==
  /\ request = <<"adminDeleteRoom", 1, 1, 1>>
  /\ changed
  /\ emitted.roomDeleted = {1}
  /\ 1 \notin DOMAIN Rooms
  /\ Users["jjucovy"].playerId = 1
  /\ Users["jjucovy"].role = "superadmin"

(***************************************************************************)
(* Properties of the single-room server: the end of Phase 2                *)
(***************************************************************************)
\* C30: the advanceYear that ends Phase 2 always completes: the handler
\* does not abort, every country on the roster that has a year record gets
\* an achievement entry, and gamePhase becomes 'complete'.
C30_LastYearCompletes ==
  [][(/\ request'[1] = "advanceYear"
      /\ process = "server.js"
      /\ readyQuorum(gameState)
      /\ gameState.phase2.active
      /\ gameState.gamePhase = "phase2"
      /\ gameState.phase2.currentYear - FirstYear >= gameState.phase2.maxYears)
     => /\ process' = "server.js"
        /\ gameState'.gamePhase = "complete"
        /\ \A c \in Held(gameState) :
              RecordYears(gameState', c) # {}
              => c \in DOMAIN Field(gameState'.phase2, "achievements")]_vars

\* C31: Phase 2 spans exactly the years 1946 to 1952: an advanceYear that
\* fires leaves phase2.currentYear at 1952 or before, and leaves no year
\* record for a year after 1952.
C31_Phase2Spans1946To1952 ==
  [][(/\ request'[1] = "advanceYear"
      /\ process = "server.js"
      /\ readyQuorum(gameState)
      /\ gameState.phase2.active)
     => /\ gameState'.phase2.currentYear <= LastAchievementYear
        /\ \A y \in DOMAIN gameState'.phase2.yearlyData :
              y <= LastAchievementYear]_vars

(***************************************************************************)
(* Properties of the multi-room server: the rounds of a room               *)
(***************************************************************************)
\* C32: a started room leaves round N for a later round only after round N
\* has been resolved: currentRound increases only when the room was in
\* phase 'results' and every player of the roster had voted.
C32_RoundAdvancesOnlyWhenResolved ==
  [][\A r \in DOMAIN Rooms :
        (/\ r \in DOMAIN globalState'.rooms
         /\ Rooms[r].gameStarted
         /\ Rooms[r].currentRound >= 1
         /\ globalState'.rooms[r].currentRound > Rooms[r].currentRound)
        => /\ Rooms[r].gamePhase = "results"
           /\ allVoted(Rooms[r].players, Rooms[r].votes)]_vars

(***************************************************************************)
(* Properties of both servers: two clients ask for the same country        *)
(***************************************************************************)
\* the ids of the roster entries that hold the country
Holders(players, country) ==
  {players[i].id : i \in {j \in DOMAIN players : players[j].country = country}}

\* C33: when a joinGame of one player for a country has succeeded and the
\* next message handled is a joinGame of another player for the same country
\* (and room), the second is rejected with 'Country already taken' and
\* leaves the roster as it was, with the first player the only holder of
\* the country.
C33_SecondJoinerIsRejected ==
  [][/\ (/\ process = "server-multiroom.js"
         /\ request[1] = "joinGame"
         /\ changed
         /\ request'[1] = "joinGame"
         /\ request'[3] = request[3]
         /\ request'[5] = request[5]
         /\ request'[4] # request[4]
         /\ ~isSuperAdmin(Users, request'[4]))
        => /\ emitted'.toActor
                = <<Msg("joinResult", FALSE, "Country already taken")>>
           /\ globalState'.rooms = Rooms
           /\ Holders(Rooms[request[3]].players, request[5]) = {request[4]}
     /\ (/\ process = "server.js"
         /\ request[1] = "joinGame"
         /\ changed
         /\ request'[1] = "joinGame"
         /\ request'[4] = request[4]
         /\ request'[3] # request[3])
        => /\ emitted'.toActor
                = <<Msg("joinResult", FALSE, "Country already taken")>>
           /\ gameState'.players = gameState.players
           /\ Holders(gameState.players, request[4]) = {request[3]}]_vars

\* server-multiroom.js refused the joinGame of a player for a country that
\* another player of the room, the only one on the roster, holds
C33_Witness ==
  /\ process = "server-multiroom.js"
  /\ request[1] = "joinGame"
  /\ ~changed
  /\ request[3] \in DOMAIN Rooms
  /\ ~isSuperAdmin(Users, request[4])
  /\ Len(Rooms[request[3]].players) = 1
  /\ Holders(Rooms[request[3]].players, request[5]) # {}
  /\ request[4] \notin Holders(Rooms[request[3]].players, request[5])
  /\ emitted.toActor = <<Msg("joinResult", FALSE, "Country already taken")>>

(***************************************************************************)
(* Properties of both servers: the ready set                               *)
(***************************************************************************)
\* the ready set has no duplicates and holds only ids of the roster
ReadyWithinRoster(players, readyPlayers) ==
  /\ \A i, j \in DOMAIN readyPlayers :
        readyPlayers[i] = readyPlayers[j] => i = j
  /\ \A i \in DOMAIN readyPlayers : HasPlayer(players, readyPlayers[i])

\* C34: in both servers, the ready set contains no duplicates and only ids
\* of players currently on the roster.
C34_ReadyPlayersOnRoster ==
  /\ \A r \in DOMAIN Rooms :
        ReadyWithinRoster(Rooms[r].players, Rooms[r].readyPlayers)
  /\ ReadyWithinRoster(gameState.players, gameState.readyPlayers)

(***************************************************************************)
(* Properties of the multi-room server: the tally of a round               *)
(***************************************************************************)
\* the number of players of the roster whose stored vote is the choice
RosterVotes(room, choice) ==
  Cardinality({i \in DOMAIN room.players :
                 /\ room.players[i].id \in DOMAIN room.votes
                 /\ room.votes[room.players[i].id] = choice})

\* C35: when a vote resolves the round of a room, the tally counts exactly
\* the votes of the players on the roster: each count is the number of
\* current players who voted that way, and the counts sum to the number of
\* current players.
C35_TallyCountsTheRoster ==
  [][\A r \in DOMAIN globalState'.rooms :
        (/\ request'[1] = "vote"
         /\ request'[3] = r
         /\ changed'
         /\ globalState'.rooms[r].gamePhase = "results"
         /\ allVoted(globalState'.rooms[r].players, globalState'.rooms[r].votes))
        => \E room \in {globalState'.rooms[r]} :
              /\ \A k \in DOMAIN room.voteTally :
                    room.voteTally[k] = RosterVotes(room, k)
              /\ room.voteTally["for"] + room.voteTally["against"]
                   + room.voteTally["abstain"] = Len(room.players)]_vars

(***************************************************************************)
(* Properties of the multi-room server: the stored room list               *)
(***************************************************************************)
\* C36: the stored room list is consistent with the rooms: it has exactly
\* one entry per existing room, and each entry's playerCount, status and
\* phase are the room's roster size, gameStarted flag and gamePhase.
C36_RoomListMatchesRooms ==
  \E roomList \in {globalState.roomList} :
    /\ Len(roomList) = Cardinality(DOMAIN Rooms)
    /\ \A r \in DOMAIN Rooms :
          \E i \in DOMAIN roomList :
             /\ roomList[i].id = r
             /\ roomList[i].playerCount = Len(Rooms[r].players)
             /\ roomList[i].status
                  = (IF Rooms[r].gameStarted THEN "playing" ELSE "waiting")
             /\ roomList[i].phase = Rooms[r].gamePhase

(***************************************************************************)
(* Properties of both servers: the phase 'complete'                        *)
(***************************************************************************)
\* C37: 'complete' is a terminal phase: a game whose gamePhase is 'complete'
\* stays 'complete' with the same scores under every message but a reset
\* (resetGame, resetRoom of the room) or the deletion of the room.
C37_CompleteIsTerminal ==
  [][/\ (/\ process = "server.js"
         /\ gameState.gamePhase = "complete"
         /\ request'[1] # "resetGame")
        => /\ gameState'.gamePhase = "complete"
           /\ gameState'.scores = gameState.scores
     /\ \A r \in DOMAIN Rooms :
          (/\ Rooms[r].gamePhase = "complete"
           /\ r \in DOMAIN globalState'.rooms
           /\ ~(request'[1] = "resetRoom" /\ request'[3] = r))
          => /\ globalState'.rooms[r].gamePhase = "complete"
             /\ globalState'.rooms[r].scores = Rooms[r].scores]_vars

(***************************************************************************)
(* Properties of the multi-room server: the reset of a room                *)
(***************************************************************************)
\* C38: a successful resetRoom keeps the roster and returns every game
\* field of the room to its freshly-created value, with no voteTally,
\* roundOutcome or roundScores left over from the previous game.
C38_ResetRoomIsFresh ==
  [][(/\ request'[1] = "resetRoom"
      /\ request'[3] \in DOMAIN Rooms
      /\ isSuperAdmin(Users, request'[4]))
     => \E room \in {Rooms[request'[3]]} :
           globalState'.rooms[request'[3]]
             = [createGameState(room.roomId, room.roomName, room.hostId)
                  EXCEPT !.players = room.players]]_vars

(***************************************************************************)
(* Properties of the multi-room server: the superadmin is an observer      *)
(***************************************************************************)
\* C39: no room's roster contains the playerId of a user whose role is
\* 'superadmin'.
C39_SuperAdminOnNoRoster ==
  \A r \in DOMAIN Rooms :
     \A i \in DOMAIN Rooms[r].players :
        \A u \in DOMAIN Users :
           Users[u].role = "superadmin"
           => Users[u].playerId # Rooms[r].players[i].id

\* the superadmin's joinGame for a free country of an existing room was
\* refused
C39_Witness ==
  /\ request[1] = "joinGame"
  /\ ~changed
  /\ request[3] \in DOMAIN Rooms
  /\ \E u \in DOMAIN Users :
        /\ Users[u].role = "superadmin"
        /\ Users[u].playerId = request[4]
  /\ Holders(Rooms[request[3]].players, request[5]) = {}
  /\ emitted.toActor
       = <<Msg("joinResult", FALSE, "Administrator cannot join as a player")>>

====
